---- MODULE Spec2Model ----
(***************************************************************************)
(* Log ingestion and incremental state tracking of the unified log parser  *)
(* (src/bot/parsers/unified_log_parser.py): one pass of parse_server_logs  *)
(* per tenant, the parse loop of parse_log_content, the session tracker    *)
(* and the persisted checkpoint.                                           *)
(*                                                                         *)
(* Dictionaries are functions whose DOMAIN is the set of keys present.     *)
(* A key f"{guild_id}_{server_id}" is the pair <<guild, server>>, a key    *)
(* f"{guild_id}_{player_id}" the pair <<guild, player>>.  Line numbers are *)
(* 1-based here: the Python index i is the line i + 1.                     *)
(***************************************************************************)
EXTENDS Integers, Sequences, FiniteSets, TLC

VARIABLES
    log,                \* tenant -> the remote Deadside.log, a sequence of lines
    last_log_position,  \* self.last_log_position
    file_states,        \* self.file_states
    store,              \* the 'file_states' field of the persisted parser_state document
    player_sessions,    \* self.player_sessions
    player_lifecycle,   \* self.player_lifecycle
    sent,               \* history: every event handed to send_log_embeds, in order
    pc,                 \* position of the running pass: "idle", "parse", "send", "finish"
    pass,               \* locals of the running (or last) pass of parse_server_logs
    hist,               \* history: what earlier passes did, per tenant
    local_file,         \* tenant -> the local file ./{host}_{server_id}/Logs/Deadside.log
    run,                \* the running (or last) call of run_log_parser, with its locals
    sftp_connections,   \* self.sftp_connections, the pool: pool_key -> connection
    conns,              \* the connections asyncssh.connect has returned, in order
    calls,              \* the calls of get_sftp_connection under way, with their locals
    raised,             \* history: a liveness check of the pool has raised
    overlapped,         \* history: a call began while another was under way
    guild_config,       \* guild id -> the document db_manager.get_guild returns
    router,             \* the running (or last) call of send_log_embeds, with its locals
    server_status,      \* self.server_status
    log_file_hashes,    \* self.log_file_hashes
    bot,                \* the EmeraldKillfeedBot: its attributes and its on_ready calls
    loader,             \* the task _load_persistent_state that __init__ creates
    other               \* a call of parse_server_logs suspended at an await

parserVars == <<log, last_log_position, file_states, store, player_sessions,
                player_lifecycle, sent, pc, pass, hist, local_file, run>>

poolVars == <<sftp_connections, conns, calls, raised, overlapped>>

routeVars == <<guild_config, router>>

\* the two dictionaries that only reset_file_states and cleanup_guild_state touch
trackVars == <<server_status, log_file_hashes>>

botVars == <<bot>>

taskVars == <<loader, other>>

restVars == <<routeVars, trackVars, botVars, taskVars>>

vars == <<parserVars, poolVars, restVars>>

-----------------------------------------------------------------------------
(* Bounds of the model *)

MaxLen == 4      \* lines a log grows to
MaxLongLen == 7  \* lines a log grows to where only LongKinds are written
MaxConns == 3    \* connections asyncssh.connect returns in a run
MaxFetchLen == 2 \* lines a log grows to in the runs where the remote read can fail
MaxRuns == 1     \* calls of run_log_parser that are followed through their loops
MaxErrLen == 5   \* lines a log grows to in the runs where a line can raise
MaxBatch == 3    \* events of a batch given to send_log_embeds
MaxNameLen == 5  \* lines a log grows to in the runs that follow the players' names
MaxTenantLen == 2 \* lines a log grows to in the runs over several tenants
MaxRotLen == 3   \* lines a log grows to in the runs where the log is rotated
MaxResetLen == 3 \* lines a log grows to in the runs with reset_file_states
MaxCleanLen == 1 \* lines a log grows to in the runs with cleanup_guild_state
MaxReady == 2    \* on_ready events the gateway delivers to a process
MaxStarts == 1   \* restarts of the process in the runs that follow the startup load
MaxLoadLen == 2  \* lines a log grows to in the runs that follow the startup load
MaxOverlapLen == 3 \* lines a log grows to in the runs with two passes under way

-----------------------------------------------------------------------------
(* Dictionaries *)

EmptyDict == <<>>

Get(d, k, default) == IF k \in DOMAIN d THEN d[k] ELSE default

Put(d, k, v) == [x \in (DOMAIN d) \cup {k} |-> IF x = k THEN v ELSE d[x]]

-----------------------------------------------------------------------------
(* Log lines, by what the compiled patterns capture from them.  A field is  *)
(* <<>> when the pattern does not match the line.                          *)

(* `empty` marks the empty string, which no pattern matches.  `overlong`   *)
(* marks a respawn time of more digits than int() converts (more than 4300 *)
(* by default), for which int(respawn_time) raises ValueError.             *)

Line(resp, st, qj, reg, disc) ==
    [empty |-> FALSE, overlong |-> FALSE,
     resp |-> resp, st |-> st, qj |-> qj, reg |-> reg, disc |-> disc]

NoiseLine == Line(<<>>, <<>>, <<>>, <<>>, <<>>)
EmptyLine == [NoiseLine EXCEPT !.empty = TRUE]
QueueJoinLine(p, n) == Line(<<>>, <<>>, <<p, n>>, <<>>, <<>>)
RegisteredLine(p) == Line(<<>>, <<>>, <<>>, <<p>>, <<>>)
DisconnectLine(p) == Line(<<>>, <<>>, <<>>, <<>>, <<p>>)
StateLine(m, s) == Line(<<>>, <<m, s>>, <<>>, <<>>, <<>>)
RespawnLine(m, secs) == Line(<<m, secs>>, <<>>, <<>>, <<>>, <<>>)
\* one line that all four event patterns match (pattern.search finds each)
ComboLine == Line(<<"GA_Bunker_01_Mis1", 60>>, <<"GA_Bunker_01_Mis1", "READY">>,
                  <<>>, <<"def">>, <<"abc">>)

\* a line whose respawn time int() does not convert, and which the
\* registration pattern matches too
OverlongLine ==
    [Line(<<"GA_Bunker_01_Mis1", 0>>, <<>>, <<>>, <<"def">>, <<>>)
        EXCEPT !.overlong = TRUE]

\* the lines the game server appends in this model
LineKinds ==
    { NoiseLine, EmptyLine, QueueJoinLine("abc", "Test"), RegisteredLine("abc"),
      DisconnectLine("abc"), ComboLine }

\* the lines written in the runs that follow a log over several hot passes
LongKinds == { RegisteredLine("abc"), ComboLine }

Players == {"abc", "def"}

Tenants == {<<"g1", "s1">>}

\* the tenants of the runs over several guilds and servers
AllTenants == {"g1", "g2"} \X {"s1", "s2"}

\* content.splitlines() of the fetched text.  Each line carries its line
\* number n in the fetched log as a history field, so that a slice of the
\* list still tells which lines of the log it holds
Numbered(content) == [i \in 1..Len(content) |-> [n |-> i, text |-> content[i]]]

\* content.splitlines() of '\n'.join(lines): a final empty line is lost, since
\* the text then ends with the separator (or is empty)
JoinSplit(lines) ==
    IF Len(lines) > 0 /\ lines[Len(lines)].text.empty
    THEN SubSeq(lines, 1, Len(lines) - 1)
    ELSE lines

\* variant: only the empty text counts, `not content`
IsBlankEmptyOnly(lines) == lines = <<>>

\* not content or not content.strip(): no line holds a non-blank character
IsBlank(lines) == \A i \in 1..Len(lines) : lines[i].empty

-----------------------------------------------------------------------------
(* Embeds.  `src` and `pat` are history fields: the line number in the     *)
(* fetched log and the pattern the embed was built from.                   *)

Embed(title, id, name, level, state, src, pat) ==
    [title |-> title, id |-> id, name |-> name, level |-> level,
     state |-> state, src |-> src, pat |-> pat]

\* the mission ids of the model, each with mission_id.split('_') and with the
\* keywords of get_mission_level that mission_id.lower() contains
MissionIds ==
    { "GA_Bunker_01_Mis1", "GA_Airport_mis_01_SFPSACMission",
      "GA_Sawmill_09_Mis1", "GA_Bochki_Mis_2" }

MissionSegments(mission_id) ==
    CASE mission_id = "GA_Bunker_01_Mis1" -> <<"GA", "Bunker", "01", "Mis1">>
      [] mission_id = "GA_Airport_mis_01_SFPSACMission"
           -> <<"GA", "Airport", "mis", "01", "SFPSACMission">>
      [] mission_id = "GA_Sawmill_09_Mis1" -> <<"GA", "Sawmill", "09", "Mis1">>
      [] mission_id = "GA_Bochki_Mis_2" -> <<"GA", "Bochki", "Mis", "2">>

MissionKeywords(mission_id) ==
    CASE mission_id = "GA_Bunker_01_Mis1" -> {"bunker"}
      [] mission_id = "GA_Airport_mis_01_SFPSACMission" -> {"airport"}
      [] mission_id = "GA_Sawmill_09_Mis1" -> {"sawmill"}
      [] mission_id = "GA_Bochki_Mis_2" -> {}

\* the alphabetic parts, capitalized, of the id without 'GA_', '_Mis', '_mis'
ReadableParts(mission_id) ==
    CASE mission_id = "GA_Bunker_01_Mis1" -> <<"Bunker">>
      [] mission_id = "GA_Airport_mis_01_SFPSACMission" -> <<"Airport", "Sfpsacmission">>
      [] mission_id = "GA_Sawmill_09_Mis1" -> <<"Sawmill">>
      [] mission_id = "GA_Bochki_Mis_2" -> <<"Bochki">>

\* the entries of the mapping table for ids of the model
mission_mappings ==
    [id \in {"GA_Bunker_01_Mis1", "GA_Airport_mis_01_SFPSACMission"} |->
        IF id = "GA_Bunker_01_Mis1" THEN <<"Underground Bunker Mission">>
        ELSE <<"Airport Mission #1">>]

\* '_Word_' in mission_id: Word is a segment with a segment on either side
HasSegment(mission_id, word) ==
    LET seg == MissionSegments(mission_id)
    IN  \E i \in 2..(Len(seg) - 1) : seg[i] = word

\* the readable name, as the sequence of the parts the f-string joins
normalize_mission_name(mission_id) ==
    LET seg == MissionSegments(mission_id)
        last == seg[Len(seg)]
    IN  IF mission_id \in DOMAIN mission_mappings THEN mission_mappings[mission_id]
        ELSE IF HasSegment(mission_id, "Airport") THEN <<"Airport Mission", last>>
        ELSE IF HasSegment(mission_id, "Military") THEN <<"Military Mission", last>>
        ELSE IF HasSegment(mission_id, "Settle") THEN <<"Settlement Mission", last>>
        ELSE IF HasSegment(mission_id, "Ind") \/ HasSegment(mission_id, "PromZone")
        THEN <<"Industrial Mission", last>>
        ELSE IF HasSegment(mission_id, "KhimMash") THEN <<"Chemical Plant Mission", last>>
        ELSE IF HasSegment(mission_id, "Bunker") THEN <<"Bunker Mission", last>>
        ELSE IF HasSegment(mission_id, "Sawmill") THEN <<"Sawmill Mission", last>>
        ELSE IF ReadableParts(mission_id) # <<>>
        THEN ReadableParts(mission_id) \o <<"Mission">>
        ELSE <<"Special Mission", mission_id>>

HighTier == 5
HighMediumTier == 4
MediumTier == 3
LowMediumTier == 2
LowTier == 1

get_mission_level(mission_id) ==
    LET kw == MissionKeywords(mission_id)
    IN  IF kw \cap {"military", "bunker", "khimmash"} # {} THEN HighTier
        ELSE IF kw \cap {"airport", "promzone", "kamensk"} # {} THEN HighMediumTier
        ELSE IF kw \cap {"ind_", "industrial"} # {} THEN MediumTier
        ELSE IF kw \cap {"sawmill", "lighthouse", "elevator"} # {} THEN LowMediumTier
        ELSE LowTier

\* process_mission_event: the title chosen for a state; respawn_time 0
\* stands for None (both are falsy)
MissionTitle(state, respawn_time) ==
    IF state = "READY" THEN "Mission Available"
    ELSE IF state = "IN_PROGRESS" THEN "Mission In Progress"
    ELSE IF state = "COMPLETED" THEN "Mission Completed"
    ELSE IF respawn_time # 0 THEN "Mission Respawning"
    ELSE "Mission Update"

\* the state the mission embed is built with
MissionEmbedState(state, respawn_time) ==
    IF state \in {"READY", "IN_PROGRESS", "COMPLETED"} THEN state
    ELSE IF respawn_time # 0 THEN "RESPAWN"
    ELSE state

process_mission_event(mission_id, state, respawn_time, src, pat) ==
    Embed(MissionTitle(state, respawn_time), mission_id,
          normalize_mission_name(mission_id), get_mission_level(mission_id),
          MissionEmbedState(state, respawn_time), src, pat)

\* variant: a disconnect of a player without a session records an offline one
SessionsOfflineOnDisconnect(sessions, guild_id, player_id, player_name, event_type) ==
    Put(sessions, <<guild_id, player_id>>,
        [player_name |-> player_name,
         status |-> IF event_type = "joined" THEN "online" ELSE "offline"])

\* variant: a disconnect leaves the stored session as it is
SessionsKeptOnDisconnect(sessions, guild_id, player_id, player_name, event_type) ==
    IF event_type = "joined"
    THEN Put(sessions, <<guild_id, player_id>>,
             [player_name |-> player_name, status |-> "online"])
    ELSE sessions

\* process_player_connection: the session dictionary after the event
SessionsAfterConnection(sessions, guild_id, player_id, player_name, event_type) ==
    LET session_key == <<guild_id, player_id>> IN
    IF event_type = "joined"
    THEN Put(sessions, session_key,
             [player_name |-> player_name, status |-> "online"])
    ELSE IF event_type = "disconnected" /\ session_key \in DOMAIN sessions
    THEN [sessions EXCEPT ![session_key].status = "offline"]
    ELSE sessions

\* process_player_connection: the embed it returns
ConnectionEmbed(player_id, player_name, event_type, src, pat) ==
    IF event_type = "joined"
    THEN Embed("Player Connected", player_id, player_name, 0, "", src, pat)
    ELSE Embed("Player Disconnected", player_id, player_name, 0, "", src, pat)

\* update_voice_channel: the count of online sessions of a guild
OnlineCount(sessions, guild_id) ==
    Cardinality({k \in DOMAIN sessions :
                    k[1] = guild_id /\ sessions[k].status = "online"})

-----------------------------------------------------------------------------
(* parse_log_content: the loop over the lines.  st is the state the loop   *)
(* threads through: the two tracker dictionaries, the embeds list,         *)
(* processed_events, whether the loop was left by the safety break, and    *)
(* `seen`, the history of line numbers that entered the loop body, with    *)
(* `after`, the history of processed_events at the end of each of them.    *)

HotLimitFactor == 2
ColdLimitFactor == 5

\* variant: an event counts twice
AddEventCountedTwice(st, embed, cold_start_mode) ==
    [st EXCEPT !.events = @ + 2,
               !.embeds = IF cold_start_mode THEN @ ELSE Append(@, embed)]

\* if embed: processed_events += 1; if not cold_start_mode: embeds.append(embed)
AddEvent(st, embed, cold_start_mode) ==
    [st EXCEPT !.events = @ + 1,
               !.embeds = IF cold_start_mode THEN @ ELSE Append(@, embed)]

\* variant: without the `continue` for mission_ready .. mission_completed,
\* the embed of the state change is counted and appended once more when one
\* of these patterns matches the line too
MissionStepWithoutContinue(st, line, nlines, cold_start_mode, src) ==
    LET r1 == IF line.resp # <<>>
              THEN AddEvent(st, process_mission_event(line.resp[1], "RESPAWN",
                                    line.resp[2], src, "mission_respawn"),
                            cold_start_mode)
              ELSE st
        e2 == process_mission_event(line.st[1], line.st[2], 0, src,
                                    "mission_state_change")
        r2 == IF line.st # <<>> THEN AddEvent(r1, e2, cold_start_mode) ELSE r1
    IN  IF line.st # <<>>
           /\ line.st[2] \in {"READY", "INITIAL", "IN_PROGRESS", "COMPLETED"}
        THEN AddEvent(r2, e2, cold_start_mode)
        ELSE r2

\* the inner loop over the mission_ patterns, in dictionary order:
\* mission_respawn, then mission_state_change; the safety check after the
\* first one leaves the inner loop before the second is tried
MissionStep(st, line, nlines, cold_start_mode, src) ==
    LET r1 == IF line.resp # <<>>
              THEN AddEvent(st, process_mission_event(line.resp[1], "RESPAWN",
                                    line.resp[2], src, "mission_respawn"),
                            cold_start_mode)
              ELSE st
        brk == /\ line.resp # <<>>
               /\ ~cold_start_mode
               /\ r1.events > nlines * HotLimitFactor
    IN  IF ~brk /\ line.st # <<>>
        THEN AddEvent(r1, process_mission_event(line.st[1], line.st[2], 0, src,
                              "mission_state_change"),
                      cold_start_mode)
        ELSE r1

\* variant: a name already stored for the player is kept
QueueJoinStepKeepFirst(st, line, guild_id) ==
    IF line.qj # <<>> /\ <<guild_id, line.qj[1]>> \notin DOMAIN st.lifecycle
    THEN [st EXCEPT !.lifecycle = Put(@, <<guild_id, line.qj[1]>>,
                                      [name |-> line.qj[2]])]
    ELSE st

\* player_queue_join: the name is stored for the later registration
QueueJoinStep(st, line, guild_id) ==
    IF line.qj # <<>>
    THEN [st EXCEPT !.lifecycle = Put(@, <<guild_id, line.qj[1]>>,
                                      [name |-> line.qj[2]])]
    ELSE st

\* variant: a registration of a player whose session is online already is
\* passed over
RegisteredStepOncePerSession(st, line, guild_id, cold_start_mode, src) ==
    IF /\ line.reg # <<>>
       /\ ~( /\ <<guild_id, line.reg[1]>> \in DOMAIN st.sessions
             /\ st.sessions[<<guild_id, line.reg[1]>>].status = "online" )
    THEN LET player_id == line.reg[1]
             player_key == <<guild_id, player_id>>
             player_name == IF player_key \in DOMAIN st.lifecycle
                            THEN st.lifecycle[player_key].name
                            ELSE "Unknown Player"
         IN  AddEvent([st EXCEPT !.sessions = SessionsAfterConnection(
                                      @, guild_id, player_id, player_name, "joined")],
                      ConnectionEmbed(player_id, player_name, "joined", src,
                                      "player_registered"),
                      cold_start_mode)
    ELSE st

\* player_registered
RegisteredStep(st, line, guild_id, cold_start_mode, src) ==
    IF line.reg # <<>>
    THEN LET player_id == line.reg[1]
             player_key == <<guild_id, player_id>>
             player_name == IF player_key \in DOMAIN st.lifecycle
                            THEN st.lifecycle[player_key].name
                            ELSE "Unknown Player"
         IN  AddEvent([st EXCEPT !.sessions = SessionsAfterConnection(
                                      @, guild_id, player_id, player_name, "joined")],
                      ConnectionEmbed(player_id, player_name, "joined", src,
                                      "player_registered"),
                      cold_start_mode)
    ELSE st

\* player_disconnect
DisconnectStep(st, line, guild_id, cold_start_mode, src) ==
    IF line.disc # <<>>
    THEN LET player_id == line.disc[1]
             player_key == <<guild_id, player_id>>
             player_name == IF player_key \in DOMAIN st.sessions
                            THEN st.sessions[player_key].player_name
                            ELSE IF player_key \in DOMAIN st.lifecycle
                            THEN st.lifecycle[player_key].name
                            ELSE "Unknown Player"
         IN  AddEvent([st EXCEPT !.sessions = SessionsAfterConnection(
                                      @, guild_id, player_id, player_name,
                                      "disconnected")],
                      ConnectionEmbed(player_id, player_name, "disconnected", src,
                                      "player_disconnect"),
                      cold_start_mode)
    ELSE st

\* variant: the check after each line never leaves the loop
SafetyCheckOff(st, nlines, cold_start_mode) == [st EXCEPT !.stop = FALSE]

\* the safety check after each line: st.stop is the branch that logs
\* "SAFETY BREAK ... stopping processing" and leaves the loop
SafetyCheck(st, nlines, cold_start_mode) ==
    LET max_events == IF cold_start_mode THEN nlines * ColdLimitFactor
                      ELSE nlines * HotLimitFactor
    IN  [st EXCEPT !.stop = st.events > max_events]

\* the body raises at int(respawn_time), the first statement after the match
\* of mission_respawn, which is the first pattern tried
LineRaises(line) == line.resp # <<>> /\ line.overlong

\* variant: the exception ends the loop
OnLineErrorLeaveLoop(st) == [st EXCEPT !.stop = TRUE]

\* except Exception: the error is logged and the loop continues with the
\* next line; the rest of the body, the safety check included, is not run
OnLineError(st) == st

\* one iteration of the loop body; an empty line matches no pattern
ProcessLine(st, line, nlines, guild_id, cold_start_mode, src) ==
    LET s0 == [st EXCEPT !.seen = @ \cup {src}]
        s1 == MissionStep(s0, line, nlines, cold_start_mode, src)
        s2 == QueueJoinStep(s1, line, guild_id)
        s3 == RegisteredStep(s2, line, guild_id, cold_start_mode, src)
        s4 == DisconnectStep(s3, line, guild_id, cold_start_mode, src)
        s5 == SafetyCheck(s4, nlines, cold_start_mode)
        caught == OnLineError(s0)
    IN  IF LineRaises(line)
        THEN [caught EXCEPT !.after = Append(@, caught.events)]
        ELSE [s5 EXCEPT !.after = Append(@, s4.events)]

RECURSIVE ParseLoop(_, _, _, _, _)
\* for line_idx, line in enumerate(lines)
ParseLoop(st, lines, i, guild_id, cold_start_mode) ==
    IF i > Len(lines) \/ st.stop
    THEN st
    ELSE ParseLoop(ProcessLine(st, lines[i].text, Len(lines), guild_id,
                               cold_start_mode, lines[i].n),
                   lines, i + 1, guild_id, cold_start_mode)

-----------------------------------------------------------------------------
(* State of a pass *)

\* file_state.get('line_count', 0), file_state.get('cold_start_complete', False)
\* of an absent entry
NoFileState ==
    [line_count |-> 0, last_updated |-> "never", cold_start_complete |-> FALSE]

(* Timestamps are kept relative to the running pass: datetime.now() read   *)
(* during a pass is "this_pass", and when a pass begins every stored       *)
(* last_updated becomes "earlier", being older than anything the pass will *)
(* read from the clock.                                                    *)
Aged(d) == [k \in DOMAIN d |-> [d[k] EXCEPT !.last_updated = "earlier"]]

\* a local log file: absent, or present with its lines
NoFile == [exists |-> FALSE, lines |-> <<>>]

File(lines) == [exists |-> TRUE, lines |-> lines]

Snapshot ==
    [file_states |-> Aged(file_states), last_log_position |-> last_log_position,
     store |-> Aged(store), player_sessions |-> player_sessions,
     player_lifecycle |-> player_lifecycle, nsent |-> Len(sent),
     local_file |-> local_file]

NoSnapshot ==
    [file_states |-> EmptyDict, last_log_position |-> EmptyDict,
     store |-> EmptyDict, player_sessions |-> EmptyDict,
     player_lifecycle |-> EmptyDict, nsent |-> 0,
     local_file |-> [t \in AllTenants |-> NoFile]]

\* reset: hist[t].reset as the pass found it, or "during" when
\* reset_file_states took the tenant's entry while the pass was under way;
\* outcome: "none" (no pass yet), "running", "invalid_config", "failed",
\* "local_error", "no_content", "no_new_lines", "completed"; remote: what the remote read did; src: where
\* the content came from, "remote", "local" or "fixture"
NoPass ==
    [outcome |-> "none", t |-> <<"", "">>, remote |-> "none", src |-> "none",
     content |-> <<>>, total |-> 0,
     cold |-> FALSE, lines |-> <<>>, embeds |-> <<>>,
     handed |-> <<>>, seen |-> {}, events |-> 0, stop |-> FALSE,
     after |-> <<>>, nlines |-> 0, reset |-> "none",
     same |-> FALSE, pre |-> NoSnapshot]

\* valid, len: the previous run of this process fetched the first len lines;
\* reset: "pending" after reset_file_states took the tenant's entry between
\* two passes, "overtaken" when it did so during a pass for the tenant that
\* has ended since, "cold_done" after the pass that followed a reset
NoHist ==
    [valid |-> FALSE, len |-> 0, coldUpTo |-> 0, tripped |-> FALSE,
     reset |-> "none"]

-----------------------------------------------------------------------------
(* The connection pool: server configs, pool keys and the locals of a call *)
(* of get_sftp_connection.                                                 *)

\* a value that is None or empty: dict.get of an absent key, a falsy entry
NoValue == ""

\* no connection: the None that get_sftp_connection returns
NoConn == 0

DefaultPort == 22
OtherPort == 2222

\* the server configs of the model: a complete one without 'port', the same
\* with the port spelled out, one on another port, and incomplete ones
FullConfig == [host |-> "h1", username |-> "u1", password |-> "pw"]

ServerConfigs ==
    { FullConfig,
      [host |-> "h1", port |-> DefaultPort, username |-> "u1", password |-> "pw"],
      [host |-> "h1", port |-> OtherPort, username |-> "u1", password |-> "pw"],
      [username |-> "u1", password |-> "pw"],
      [host |-> "h1", password |-> "pw"],
      [host |-> "h1", username |-> "u1"],
      [host |-> "h1", username |-> "u1", password |-> NoValue] }

\* variant: the password is not looked at
ConfigCompleteWithoutPassword(server_config) ==
    /\ Get(server_config, "host", NoValue) # NoValue
    /\ Get(server_config, "username", NoValue) # NoValue

\* all([sftp_host, sftp_username, sftp_password])
ConfigComplete(server_config) ==
    /\ Get(server_config, "host", NoValue) # NoValue
    /\ Get(server_config, "username", NoValue) # NoValue
    /\ Get(server_config, "password", NoValue) # NoValue

\* pool_key = f"{sftp_host}:{sftp_port}:{sftp_username}"
PoolKey(server_config) ==
    << Get(server_config, "host", NoValue),
       Get(server_config, "port", DefaultPort),
       Get(server_config, "username", NoValue) >>

\* the calls that can be under way at once
CallIds == {1, 2}

\* pc: "idle" (no call), "connect" (awaiting asyncssh.connect), "sleep"
\* (awaiting asyncio.sleep), "done" (returned `result`).  History fields:
\* attempts (connects awaited), fails (how each failed), sleeps (seconds
\* slept), found and check (the pooled handle met at entry and what its
\* liveness check did: said "open", said "closed", or "raises"), ret_pool
\* (the pool's entry for the key at the return)
IdleCall ==
    [pc |-> "idle", cfg |-> <<>>, key |-> <<>>, attempt |-> 0, result |-> NoConn,
     attempts |-> 0, fails |-> <<>>, sleeps |-> <<>>,
     found |-> NoConn, check |-> "none", ret_pool |-> NoConn]

\* run_log_parser is not running.  state: "off", "running", "done"; g, s: the
\* guild and the server the loops are at; inflight: parse_server_logs is
\* awaited; visits: history of what the loop did with each server it took;
\* count: the calls so far
NoRun ==
    [state |-> "off", guilds |-> <<>>, g |-> 1, s |-> 1, processed_servers |-> {},
     inflight |-> FALSE, visits |-> <<>>, count |-> 0]

\* send_log_embeds is not running.  state: "off", "running", "done"; i: the
\* event the loop is at; attempts: history of what the loop did for each
\* event it took
NoBatch ==
    [state |-> "off", guild |-> "", server |-> "", batch |-> <<>>, i |-> 1,
     attempts |-> <<>>]

\* None, of an attribute that holds no parser
NoParser == "None"

\* the bot after __init__.  state: "up" or "closed"; setup_complete:
\* hasattr(self, '_setup_complete'); killfeed_parser, log_parser,
\* unified_parser: the attributes, NoParser or the name of the parser;
\* scheduled: the job 'unified_log_parser' is in the scheduler; ready: the
\* position of each call of on_ready ("idle", "sleep", "register",
\* "database", "done", "skipped", "raised").  History fields: cogs, syncs,
\* databases, jobs (how often load_cogs, register_commands_safely,
\* setup_database and add_job were entered), left_open (the pooled
\* connections that were open when the bot had shut down)
NewBot ==
    [state |-> "up", setup_complete |-> FALSE,
     killfeed_parser |-> NoParser, log_parser |-> NoParser,
     unified_parser |-> NoParser, scheduled |-> FALSE,
     ready |-> [r \in 1..MaxReady |-> "idle"],
     cogs |-> 0, syncs |-> 0, databases |-> 0, jobs |-> 0,
     left_open |-> {}, closed_by |-> "none"]

\* the startup task.  pc: "finished" (the load of this process is over),
\* "created" (asyncio.create_task has made it), "find_one" (the query is
\* awaited), "found" (the database has answered); doc: the 'file_states'
\* of the answer; starts: history, the restarts so far
NoLoader == [pc |-> "finished", doc |-> EmptyDict, starts |-> 0]

\* no call of parse_server_logs is suspended besides the one that runs
NoOther == [pc |-> "idle", pass |-> NoPass]

Init ==
    /\ bot = NewBot
    /\ loader = NoLoader
    /\ other = NoOther
    /\ guild_config = EmptyDict
    /\ router = NoBatch
    /\ server_status = EmptyDict
    /\ log_file_hashes = EmptyDict
    /\ sftp_connections = EmptyDict
    /\ conns = <<>>
    /\ calls = [c \in CallIds |-> IdleCall]
    /\ raised = FALSE
    /\ overlapped = FALSE
    /\ local_file = [t \in AllTenants |-> NoFile]
    /\ run = NoRun
    /\ log = [t \in AllTenants |-> <<>>]
    /\ last_log_position = EmptyDict
    /\ file_states = EmptyDict
    /\ store = EmptyDict
    /\ player_sessions = EmptyDict
    /\ player_lifecycle = EmptyDict
    /\ sent = <<>>
    /\ pc = "idle"
    /\ pass = NoPass
    /\ hist = [t \in AllTenants |-> NoHist]

\* the game server writes one more line to the tenant's log; a pass reads the
\* log only in its fetch, so a line written during a pass is one written
\* right after it
AppendLine(t, line, max_len) ==
    /\ pc = "idle"
    /\ Len(log[t]) < max_len
    /\ log' = [log EXCEPT ![t] = Append(@, line)]
    /\ pass' = NoPass
    /\ UNCHANGED <<last_log_position, file_states, store, player_sessions,
                   player_lifecycle, sent, pc, hist>>
    /\ UNCHANGED <<local_file, run, poolVars, restVars>>

\* variant: the mode flag inverted
IsColdStartInverted(last_position, file_state) ==
    ~( \/ last_position = 0
       \/ file_state.line_count = 0
       \/ ~file_state.cold_start_complete )

\* is_cold_start of parse_server_logs
IsColdStart(last_position, file_state) ==
    \/ last_position = 0
    \/ file_state.line_count = 0
    \/ ~file_state.cold_start_complete

\* variant: the slice starts one line early, lines[last_position - 1:]
NewLinesOneEarly(lines, last_position) ==
    IF last_position <= Len(lines)
    THEN SubSeq(lines, IF last_position = 0 THEN 1 ELSE last_position, Len(lines))
    ELSE <<>>

\* lines[last_position:] if last_position < total_lines else []
NewLines(lines, last_position) ==
    IF last_position < Len(lines)
    THEN SubSeq(lines, last_position + 1, Len(lines))
    ELSE <<>>

\* what the remote read can do: return the text of the remote log, or give
\* None for want of a connection, for want of the remote file, or on an error
RemoteOutcomes == {"read", "no_connection", "no_file", "read_error"}

\* get_sftp_log_content: the text of the remote log, or None
get_sftp_log_content(remote, remote_lines) ==
    IF remote = "read" THEN [none |-> FALSE, content |-> remote_lines]
    ELSE [none |-> TRUE, content |-> <<>>]

\* test_log_content, by what the patterns capture from its five lines (the
\* join request has Name before eosid, so player_queue_join does not match)
Fixture ==
    << StateLine("GA_Airport_mis_01_SFPSACMission", "READY"),
       NoiseLine,
       StateLine("GA_Airport_mis_01_SFPSACMission", "IN_PROGRESS"),
       StateLine("GA_Airport_mis_01_SFPSACMission", "COMPLETED"),
       DisconnectLine("abc123def456") >>

\* variant: the fixture is written and used whether or not a local file exists
LocalFallbackFixtureOnly(local, local_ok) ==
    [src |-> "fixture", ok |-> TRUE, content |-> Fixture, local |-> File(Fixture)]

\* the fallback to the local file: what is read, and the local file after it
LocalFallback(local, local_ok) ==
    IF ~local.exists
    THEN [src |-> "fixture", ok |-> TRUE, content |-> Fixture,
          local |-> File(Fixture)]
    ELSE IF local_ok
    THEN [src |-> "local", ok |-> TRUE, content |-> local.lines, local |-> local]
    ELSE [src |-> "local", ok |-> FALSE, content |-> <<>>, local |-> local]

\* parse_server_logs up to the call of parse_log_content: the fetch with its
\* fallback, the empty-content return, the mode selection and the hot-start
\* slice.  remote is what the remote read does, local_ok whether an existing
\* local file can be read
BeginPass(t, remote, local_ok) ==
    /\ pc = "idle"
    /\ file_states' = Aged(file_states)
    /\ store' = Aged(store)
    /\ LET fetched == get_sftp_log_content(remote, log[t])
           fallen == IF fetched.none THEN LocalFallback(local_file[t], local_ok)
                     ELSE [src |-> "remote", ok |-> TRUE, content |-> fetched.content,
                           local |-> local_file[t]]
           content == fallen.content
           total_lines == Len(content)
           last_position == Get(last_log_position, t, 0)
           file_state == Get(file_states, t, NoFileState)
           is_cold_start == IsColdStart(last_position, file_state)
           new_lines == NewLines(Numbered(content), last_position)
           begun == [NoPass EXCEPT !.t = t, !.content = content,
                                   !.remote = remote, !.src = fallen.src,
                                   !.total = total_lines,
                                   !.same = hist[t].valid /\ hist[t].len = total_lines,
                                   !.reset = hist[t].reset,
                                   !.pre = Snapshot]
       IN  /\ local_file' = [local_file EXCEPT ![t] = fallen.local]
           /\ IF ~fallen.ok
              THEN /\ pc' = "idle"
                   /\ pass' = [begun EXCEPT !.outcome = "local_error"]
                   /\ hist' = hist
              ELSE IF IsBlank(content)
              THEN /\ pc' = "idle"
                   /\ pass' = [begun EXCEPT !.outcome = "no_content"]
                   /\ hist' = [hist EXCEPT ![t].valid = TRUE, ![t].len = total_lines]
              ELSE IF ~is_cold_start /\ new_lines = <<>>
              THEN /\ pc' = "idle"
                   /\ pass' = [begun EXCEPT !.outcome = "no_new_lines"]
                   /\ hist' = [hist EXCEPT ![t].valid = TRUE, ![t].len = total_lines,
                                            ![t].reset = "none"]
              ELSE /\ pc' = "parse"
                   /\ pass' = [begun EXCEPT
                                 !.outcome = "running",
                                 !.cold = is_cold_start,
                                 !.lines = IF is_cold_start THEN Numbered(content)
                                           ELSE new_lines]
                   /\ hist' = hist
    /\ UNCHANGED <<log, last_log_position, player_sessions, player_lifecycle, sent>>
    /\ UNCHANGED <<poolVars, restVars>>

\* parse_log_content: "Only process new lines in hot start mode"
IsHotSlice(last_processed, total_lines) ==
    last_processed > 0 /\ last_processed < total_lines

\* variant: the slice is forgotten
RemainingLinesUnsliced(lines, last_processed) == lines

\* parse_log_content: the lines the loop runs over, lines[last_processed:] or
\* all of them
RemainingLines(lines, last_processed) ==
    IF IsHotSlice(last_processed, Len(lines))
    THEN SubSeq(lines, last_processed + 1, Len(lines))
    ELSE lines

\* parse_log_content, called with '\n'.join(lines_to_process)
ParseLogContent ==
    /\ pc = "parse"
    /\ LET t == pass.t
           all_lines == JoinSplit(pass.lines)
           total_lines == Len(all_lines)
           stored_state == Get(file_states, t, NoFileState)
           last_processed == stored_state.line_count
           hot_slice == IsHotSlice(last_processed, total_lines)
           lines == RemainingLines(all_lines, last_processed)
           st0 == [sessions |-> player_sessions, lifecycle |-> player_lifecycle,
                   embeds |-> <<>>, events |-> 0, stop |-> FALSE, seen |-> {},
                   after |-> <<>>]
           st == ParseLoop(st0, lines, 1, t[1], pass.cold)
       IN  IF ~hot_slice /\ last_processed >= total_lines
           THEN \* "No new lines to process": returns the empty list
                /\ pass' = [pass EXCEPT !.embeds = <<>>]
                /\ UNCHANGED <<file_states, store, player_sessions, player_lifecycle>>
           ELSE \* the entry written here has no 'cold_start_complete' key,
                \* which reads as False
                /\ file_states' = Put(file_states, t,
                                      [line_count |-> total_lines,
                                       last_updated |-> "this_pass",
                                       cold_start_complete |-> FALSE])
                /\ store' = file_states'
                /\ player_sessions' = st.sessions
                /\ player_lifecycle' = st.lifecycle
                /\ pass' = [pass EXCEPT !.embeds = st.embeds, !.seen = st.seen,
                                        !.events = st.events, !.stop = st.stop,
                                        !.after = st.after,
                                        !.nlines = Len(lines)]
    /\ pc' = "send"
    /\ UNCHANGED <<log, last_log_position, sent, hist>>
    /\ UNCHANGED <<local_file, run, poolVars, restVars>>

\* _determine_embed_type_from_title
EmbedType(title) ==
    IF title \in {"Mission Available", "Mission In Progress", "Mission Completed",
                  "Mission Respawning", "Mission Update"}
    THEN "mission_event"
    ELSE IF title \in {"Player Connected", "Player Disconnected"}
    THEN "player_connection"
    ELSE "mission_event"

\* parse_server_logs: the embeds are converted and handed to send_log_embeds
SendEmbeds ==
    /\ pc = "send"
    /\ LET processed_embeds ==
               IF pass.cold THEN <<>>
               ELSE [i \in 1..Len(pass.embeds) |->
                        [type |-> EmbedType(pass.embeds[i].title),
                         embed |-> pass.embeds[i]]]
       IN  /\ pass' = [pass EXCEPT !.handed = processed_embeds]
           /\ sent' = sent \o processed_embeds
    /\ pc' = "finish"
    /\ UNCHANGED <<log, last_log_position, file_states, store,
                   player_sessions, player_lifecycle, hist>>
    /\ UNCHANGED <<local_file, run, poolVars, restVars>>

\* parse_server_logs: the position tracking update that ends the pass
FinishPass ==
    /\ pc = "finish"
    /\ LET t == pass.t IN
       /\ last_log_position' = Put(last_log_position, t, pass.total)
       /\ file_states' = Put(file_states, t,
                             [line_count |-> pass.total,
                              last_updated |-> "this_pass",
                              cold_start_complete |-> TRUE])
       /\ store' = file_states'
       /\ hist' = [hist EXCEPT
                     ![t].valid = TRUE,
                     ![t].len = pass.total,
                     ![t].coldUpTo = IF pass.cold THEN pass.total ELSE @,
                     ![t].tripped = @ \/ (~pass.cold /\ pass.stop),
                     ![t].reset = IF pass.reset \in {"pending", "overtaken"}
                                  THEN "cold_done"
                                  ELSE IF pass.reset = "during" THEN "overtaken"
                                  ELSE "none"]
    /\ pass' = [pass EXCEPT !.outcome = "completed"]
    /\ pc' = "idle"
    /\ UNCHANGED <<log, player_sessions, player_lifecycle, sent>>
    /\ UNCHANGED <<local_file, run, poolVars, restVars>>

\* the process is restarted between passes: __init__ empties the dictionaries
\* and _load_persistent_state reads file_states back from the store
Restart ==
    /\ pc = "idle"
    /\ last_log_position' = EmptyDict
    /\ player_sessions' = EmptyDict
    /\ player_lifecycle' = EmptyDict
    /\ file_states' = store
    /\ pass' = NoPass
    /\ hist' = [t \in AllTenants |-> [hist[t] EXCEPT !.valid = FALSE]]
    /\ UNCHANGED <<log, store, sent, pc>>
    /\ UNCHANGED <<local_file, run, poolVars, restVars>>

Next ==
    \/ \E t \in Tenants, line \in LineKinds : AppendLine(t, line, MaxLen)
    \/ \E t \in Tenants : BeginPass(t, "read", TRUE) /\ UNCHANGED run
    \/ ParseLogContent
    \/ SendEmbeds
    \/ FinishPass
    \/ Restart

Spec == Init /\ [][Next]_vars

\* the same program over longer logs of fewer kinds of lines
NextLong ==
    \/ \E t \in Tenants, line \in LongKinds : AppendLine(t, line, MaxLongLen)
    \/ \E t \in Tenants : BeginPass(t, "read", TRUE) /\ UNCHANGED run
    \/ ParseLogContent
    \/ SendEmbeds
    \/ FinishPass
    \/ Restart

SpecLong == Init /\ [][NextLong]_vars

\* the lines written in the runs that follow the state changes of missions
MissionKinds ==
    { NoiseLine,
      StateLine("GA_Airport_mis_01_SFPSACMission", "READY"),
      StateLine("GA_Airport_mis_01_SFPSACMission", "IN_PROGRESS"),
      StateLine("GA_Airport_mis_01_SFPSACMission", "COMPLETED"),
      StateLine("GA_Sawmill_09_Mis1", "READY") }

\* the same program over logs of mission state changes
NextMission ==
    \/ \E t \in Tenants, line \in MissionKinds : AppendLine(t, line, MaxLen)
    \/ \E t \in Tenants : BeginPass(t, "read", TRUE) /\ UNCHANGED run
    \/ ParseLogContent
    \/ SendEmbeds
    \/ FinishPass
    \/ Restart

SpecMission == Init /\ [][NextMission]_vars

\* the lines written in the runs where the processing of a line can raise
ErrKinds == { RegisteredLine("abc"), OverlongLine }

\* the same program over logs with lines that raise in the loop body
NextErr ==
    \/ \E t \in Tenants, line \in ErrKinds : AppendLine(t, line, MaxErrLen)
    \/ \E t \in Tenants : BeginPass(t, "read", TRUE) /\ UNCHANGED run
    \/ ParseLogContent
    \/ SendEmbeds
    \/ FinishPass

SpecErr == Init /\ [][NextErr]_vars

\* the lines written in the runs that follow the sessions of the players
SessionKinds ==
    { QueueJoinLine("abc", "Test"), RegisteredLine("abc"), DisconnectLine("abc"),
      OverlongLine }

\* the same program over logs of connection lines, some of which raise
NextSession ==
    \/ \E t \in Tenants, line \in SessionKinds : AppendLine(t, line, MaxErrLen)
    \/ \E t \in Tenants : BeginPass(t, "read", TRUE) /\ UNCHANGED run
    \/ ParseLogContent
    \/ SendEmbeds
    \/ FinishPass

SpecSession == Init /\ [][NextSession]_vars

\* the lines written in the runs that follow the names of the players
NameKinds ==
    { QueueJoinLine("abc", "Test"), QueueJoinLine("abc", "Other"),
      RegisteredLine("abc"), DisconnectLine("abc") }

\* the same program over logs in which a player joins under two names
NextNames ==
    \/ \E t \in Tenants, line \in NameKinds : AppendLine(t, line, MaxNameLen)
    \/ \E t \in Tenants : BeginPass(t, "read", TRUE) /\ UNCHANGED run
    \/ ParseLogContent
    \/ SendEmbeds
    \/ FinishPass

SpecNames == Init /\ [][NextNames]_vars

\* the game server starts a new log file: the remote Deadside.log is empty
\* again.  What earlier passes did was done to the old file
RotateLog(t) ==
    /\ pc = "idle"
    /\ log[t] # <<>>
    /\ log' = [log EXCEPT ![t] = <<>>]
    /\ hist' = [hist EXCEPT ![t] = [NoHist EXCEPT !.tripped = hist[t].tripped,
                                                  !.reset = hist[t].reset]]
    /\ pass' = NoPass
    /\ UNCHANGED <<last_log_position, file_states, store, player_sessions,
                   player_lifecycle, sent, pc>>
    /\ UNCHANGED <<local_file, run, poolVars, restVars>>

\* the lines written in the runs where the log is rotated
RotKinds == { NoiseLine, QueueJoinLine("abc", "Test") }

\* the same program over logs that are rotated
NextRotate ==
    \/ \E t \in Tenants, line \in RotKinds : AppendLine(t, line, MaxRotLen)
    \/ \E t \in Tenants : RotateLog(t)
    \/ \E t \in Tenants : BeginPass(t, "read", TRUE) /\ UNCHANGED run
    \/ ParseLogContent
    \/ SendEmbeds
    \/ FinishPass
    \/ Restart

SpecRotate == Init /\ [][NextRotate]_vars

\* no server key: the None of the server_key argument
NoKey == <<>>

\* the dictionary without the keys K
Without(d, K) == [x \in (DOMAIN d) \ K |-> d[x]]

\* the keys of d that start with the guild's prefix
OfGuild(d, guild_id) == { k \in DOMAIN d : k[1] = guild_id }

\* the tenants whose file_states entry the call is to remove
ResetTargets(server_key, guild_id) ==
    IF server_key # NoKey THEN {server_key}
    ELSE IF guild_id # NoValue THEN { k \in AllTenants : k[1] = guild_id }
    ELSE AllTenants

\* variant: the entry is kept and marked for a cold start
FileStatesMarkedForReset(states, server_key, guild_id) ==
    [k \in DOMAIN states |->
        IF k \in ResetTargets(server_key, guild_id)
        THEN [states[k] EXCEPT !.cold_start_complete = FALSE]
        ELSE states[k]]

\* file_states after reset_file_states
FileStatesAfterReset(states, server_key, guild_id) ==
    IF server_key # NoKey THEN Without(states, {server_key})
    ELSE IF guild_id # NoValue THEN Without(states, OfGuild(states, guild_id))
    ELSE EmptyDict

\* reset_file_states, called by a command between two awaits of whatever
\* else is running.  The persisted document is not written
reset_file_states(server_key, guild_id, reset_all_tracking) ==
    LET targets == ResetTargets(server_key, guild_id)
        \* guild_id_from_key = server_key.split('_')[0]
        guild == IF server_key # NoKey THEN server_key[1] ELSE guild_id
        one_guild == server_key # NoKey \/ guild_id # NoValue
        TrackingAfter(d) ==
            IF ~reset_all_tracking THEN d
            ELSE IF one_guild THEN Without(d, OfGuild(d, guild))
            ELSE EmptyDict
        during == pc # "idle" /\ pass.t \in targets
    IN  /\ file_states' = FileStatesAfterReset(file_states, server_key, guild_id)
        /\ player_sessions' = TrackingAfter(player_sessions)
        /\ player_lifecycle' = TrackingAfter(player_lifecycle)
        /\ server_status' =
              IF ~reset_all_tracking THEN server_status
              ELSE IF server_key # NoKey THEN Without(server_status, {server_key})
              ELSE IF guild_id # NoValue
              THEN Without(server_status, OfGuild(server_status, guild_id))
              ELSE EmptyDict
        /\ last_log_position' =
              IF reset_all_tracking /\ ~one_guild THEN EmptyDict
              ELSE last_log_position
        /\ log_file_hashes' =
              IF reset_all_tracking /\ ~one_guild THEN EmptyDict
              ELSE log_file_hashes
        /\ hist' = [t \in AllTenants |->
                      IF t \in targets /\ ~(during /\ t = pass.t)
                      THEN [hist[t] EXCEPT !.reset = "pending"]
                      ELSE hist[t]]
        /\ pass' = IF during THEN [pass EXCEPT !.reset = "during"] ELSE pass
        /\ UNCHANGED <<log, store, sent, pc, local_file, run>>
        /\ UNCHANGED <<poolVars, routeVars, botVars, taskVars>>

\* the tenants and the lines of the runs with reset_file_states
ResetTenants == { <<"g1", "s1">> }

ResetKinds == { RegisteredLine("abc") }

\* the same program with reset_file_states called at any point
NextReset ==
    \/ \E t \in ResetTenants, line \in ResetKinds : AppendLine(t, line, MaxResetLen)
    \/ \E t \in ResetTenants : BeginPass(t, "read", TRUE) /\ UNCHANGED run
    \/ ParseLogContent
    \/ SendEmbeds
    \/ FinishPass
    \/ \E server_key \in ResetTenants \cup {NoKey}, guild_id \in {"g1", "g2", NoValue},
          reset_all_tracking \in BOOLEAN :
          reset_file_states(server_key, guild_id, reset_all_tracking)

SpecReset == Init /\ [][NextReset]_vars

\* the tenants of the runs over several of them: two servers of one guild
\* and a server of another
SomeTenants == { <<"g1", "s1">>, <<"g1", "s2">>, <<"g2", "s1">> }

\* the lines written in these runs
TenantKinds == { RegisteredLine("abc"), DisconnectLine("abc") }

\* the same program with passes for several tenants, one after the other
NextTenants ==
    \/ \E t \in SomeTenants, line \in TenantKinds : AppendLine(t, line, MaxTenantLen)
    \/ \E t \in SomeTenants : BeginPass(t, "read", TRUE) /\ UNCHANGED run
    \/ ParseLogContent
    \/ SendEmbeds
    \/ FinishPass

SpecTenants == Init /\ [][NextTenants]_vars

\* someone puts a local log file in place, or replaces it
PlaceLocalFile(t, lines) ==
    /\ pc = "idle"
    /\ local_file[t] # File(lines)
    /\ local_file' = [local_file EXCEPT ![t] = File(lines)]
    /\ pass' = NoPass
    /\ UNCHANGED <<log, last_log_position, file_states, store, player_sessions,
                   player_lifecycle, sent, pc, hist, run>>
    /\ UNCHANGED <<poolVars, restVars>>

\* the lines written to the remote log, and the local files put in place, in
\* the runs where the remote read can fail
FetchKinds == { EmptyLine, RegisteredLine("abc") }

LocalFiles ==
    { <<>>, <<EmptyLine>>, <<RegisteredLine("abc")>>,
      <<RegisteredLine("abc"), DisconnectLine("abc")>> }

\* the same program where the remote read can fail
NextFetch ==
    \/ \E t \in Tenants, line \in FetchKinds : AppendLine(t, line, MaxFetchLen)
    \/ \E t \in Tenants, lines \in LocalFiles : PlaceLocalFile(t, lines)
    \/ \E t \in Tenants, remote \in RemoteOutcomes, local_ok \in BOOLEAN :
          BeginPass(t, remote, local_ok) /\ UNCHANGED run
    \/ ParseLogContent
    \/ SendEmbeds
    \/ FinishPass

SpecFetch == Init /\ [][NextFetch]_vars

-----------------------------------------------------------------------------
(* run_log_parser: the loop over the guilds and their servers.             *)

\* the server documents of the model: two good ones, and ones whose host or
\* id is absent, empty or the placeholder
GoodServers == { [_id |-> "s1", host |-> "h1"], [_id |-> "s2", host |-> "h1"] }

ServerDocs ==
    GoodServers \cup
    { [_id |-> "s1"], [_id |-> "s1", host |-> "unknown"], [_id |-> "s1", host |-> NoValue],
      [host |-> "h1"], [_id |-> "unknown", host |-> "h1"] }

\* the guilds_list of the model: a first guild, with or without an id, with
\* two servers, then the guild g2 with one server
GuildLists ==
    { << IF gid = NoValue THEN [servers |-> <<a, b>>]
         ELSE [_id |-> gid, servers |-> <<a, b>>],
         [_id |-> "g2", servers |-> <<c>>] >> :
      gid \in {"g1", NoValue}, a \in ServerDocs, b \in ServerDocs,
      c \in {[_id |-> "s1", host |-> "h1"], [_id |-> "s1"]} }

\* variant: only an absent or empty host or id is turned away
ServerVerdictAbsentOnly(server, processed_servers) ==
    LET server_id == Get(server, "_id", "unknown")
        host == Get(server, "host", "unknown")
    IN  IF <<host, server_id>> \in processed_servers THEN "duplicate"
        ELSE IF "host" \notin DOMAIN server \/ host = NoValue THEN "no_host"
        ELSE IF "_id" \notin DOMAIN server \/ server_id = NoValue THEN "no_id"
        ELSE "parse"

\* what the loop body does with a server: skip it as a duplicate, skip it
\* for its host or its id, or call parse_server_logs
ServerVerdict(server, processed_servers) ==
    LET server_id == Get(server, "_id", "unknown")
        host == Get(server, "host", "unknown")
    IN  IF <<host, server_id>> \in processed_servers THEN "duplicate"
        ELSE IF host = NoValue \/ host = "unknown" THEN "no_host"
        ELSE IF server_id = NoValue \/ server_id = "unknown" THEN "no_id"
        ELSE "parse"

\* guild_doc.get('_id') or guild_doc.get('guild_id')
GuildId(guild_doc) == Get(guild_doc, "_id", Get(guild_doc, "guild_id", NoValue))

\* the scheduler calls run_log_parser
StartRun(guilds_list) ==
    /\ pc = "idle"
    /\ run.state # "running"
    /\ run.count < MaxRuns
    /\ run' = [NoRun EXCEPT !.state = "running", !.guilds = guilds_list,
                            !.count = run.count + 1]
    /\ pass' = NoPass
    /\ UNCHANGED <<log, last_log_position, file_states, store, player_sessions,
                   player_lifecycle, sent, pc, hist, local_file>>
    /\ UNCHANGED <<poolVars, restVars>>

\* the loops are at a server
AtServer ==
    /\ run.state = "running"
    /\ ~run.inflight
    /\ run.g <= Len(run.guilds)
    /\ GuildId(run.guilds[run.g]) # NoValue
    /\ run.s <= Len(run.guilds[run.g].servers)

CurrentServer == run.guilds[run.g].servers[run.s]

\* a guild without an id or without servers is passed over
SkipGuild ==
    /\ run.state = "running"
    /\ run.g <= Len(run.guilds)
    /\ \/ GuildId(run.guilds[run.g]) = NoValue
       \/ run.guilds[run.g].servers = <<>>
    /\ run' = [run EXCEPT !.g = @ + 1, !.s = 1, !.processed_servers = {}]
    /\ UNCHANGED <<log, last_log_position, file_states, store, player_sessions,
                   player_lifecycle, sent, pc, pass, hist, local_file>>
    /\ UNCHANGED <<poolVars, restVars>>

\* the loop body up to a `continue`: a duplicate, or a server without a
\* usable host or id
SkipServer ==
    /\ AtServer
    /\ LET server == CurrentServer
           verdict == ServerVerdict(server, run.processed_servers)
       IN  /\ verdict # "parse"
           /\ run' = [run EXCEPT
                 !.s = @ + 1,
                 !.processed_servers =
                     IF verdict = "duplicate" THEN @
                     ELSE @ \cup {<<Get(server, "host", "unknown"),
                                    Get(server, "_id", "unknown")>>},
                 !.visits = Append(@, [g |-> run.g, s |-> run.s,
                                       kind |-> verdict, outcome |-> "none"])]
    /\ UNCHANGED <<log, last_log_position, file_states, store, player_sessions,
                   player_lifecycle, sent, pc, pass, hist, local_file>>
    /\ UNCHANGED <<poolVars, restVars>>

\* parse_server_logs turns the server away itself: `if not host`, and
\* `if not server_id or server_id == 'unknown'`
TurnedAway(server) ==
    \/ Get(server, "host", NoValue) = NoValue
    \/ Get(server, "_id", "unknown") \in {NoValue, "unknown"}

\* the loop body down to `await self.parse_server_logs(guild_id, server)`,
\* and parse_server_logs to its first return or to the call of
\* parse_log_content
CallParse(remote, local_ok) ==
    /\ AtServer
    /\ LET server == CurrentServer
           server_id == Get(server, "_id", "unknown")
           host == Get(server, "host", "unknown")
       IN  /\ ServerVerdict(server, run.processed_servers) = "parse"
           /\ IF TurnedAway(server)
              THEN /\ pass' = [NoPass EXCEPT !.outcome = "invalid_config"]
                   /\ UNCHANGED <<log, last_log_position, file_states, store,
                                  player_sessions, player_lifecycle, sent, pc,
                                  hist, local_file>>
                   /\ UNCHANGED <<poolVars, restVars>>
              ELSE BeginPass(<<GuildId(run.guilds[run.g]), server_id>>,
                             remote, local_ok)
           /\ run' = [run EXCEPT
                 !.inflight = TRUE,
                 !.processed_servers = @ \cup {<<host, server_id>>}]

\* a call in the body of parse_server_logs raises; the handler that wraps
\* the body logs the error and the pass returns
PassRaises ==
    /\ pc \in {"parse", "send"}
    /\ pc' = "idle"
    /\ pass' = [pass EXCEPT !.outcome = "failed"]
    /\ UNCHANGED <<log, last_log_position, file_states, store, player_sessions,
                   player_lifecycle, sent, hist, local_file, run>>
    /\ UNCHANGED <<poolVars, restVars>>

\* parse_server_logs has returned: the loop goes on to the next server
ReturnFromParse ==
    /\ run.state = "running"
    /\ run.inflight
    /\ pc = "idle"
    /\ run' = [run EXCEPT
          !.inflight = FALSE,
          !.s = @ + 1,
          !.visits = Append(@, [g |-> run.g, s |-> run.s,
                                kind |-> "parse", outcome |-> pass.outcome])]
    /\ UNCHANGED <<log, last_log_position, file_states, store, player_sessions,
                   player_lifecycle, sent, pc, pass, hist, local_file>>
    /\ UNCHANGED <<poolVars, restVars>>

\* the servers of a guild are through: the next guild
LeaveGuild ==
    /\ run.state = "running"
    /\ ~run.inflight
    /\ run.g <= Len(run.guilds)
    /\ GuildId(run.guilds[run.g]) # NoValue
    /\ run.guilds[run.g].servers # <<>>
    /\ run.s > Len(run.guilds[run.g].servers)
    /\ run' = [run EXCEPT !.g = @ + 1, !.s = 1, !.processed_servers = {}]
    /\ UNCHANGED <<log, last_log_position, file_states, store, player_sessions,
                   player_lifecycle, sent, pc, pass, hist, local_file>>
    /\ UNCHANGED <<poolVars, restVars>>

\* the guilds are through: run_log_parser returns
EndRun ==
    /\ run.state = "running"
    /\ run.g > Len(run.guilds)
    /\ run' = [run EXCEPT !.state = "done"]
    /\ UNCHANGED <<log, last_log_position, file_states, store, player_sessions,
                   player_lifecycle, sent, pc, pass, hist, local_file>>
    /\ UNCHANGED <<poolVars, restVars>>

\* what the remote read does in these runs
RunOutcomes == {"read", "no_connection"}

\* calls of run_log_parser one after the other
NextRun ==
    \/ \E guilds_list \in GuildLists : StartRun(guilds_list)
    \/ SkipGuild
    \/ SkipServer
    \/ \E remote \in RunOutcomes, local_ok \in BOOLEAN : CallParse(remote, local_ok)
    \/ ParseLogContent
    \/ SendEmbeds
    \/ FinishPass
    \/ PassRaises
    \/ ReturnFromParse
    \/ LeaveGuild
    \/ EndRun

SpecRun == Init /\ [][NextRun]_vars

-----------------------------------------------------------------------------
(* get_sftp_connection.  A call runs from one await to the next in one     *)
(* step: the entry up to the first asyncssh.connect, each connect attempt, *)
(* each sleep.                                                             *)

ConnectAttempts == 3
LastSleepAttempt == 2
BackoffBase == 2

\* variant: the pooled handle is returned without the liveness check
IsReusableUnchecked(conn_state, check) == TRUE

\* variant: the pooled handle is never taken for live
IsReusableNever(conn_state, check) == FALSE

\* `not conn.is_closed()` inside the try: the check answers and says open
IsReusable(conn_state, check) == check = "answers" /\ conn_state = "open"

\* variant: the new connection is returned without being stored
PoolWithoutNew(pool, pool_key, conn) == pool

\* self.sftp_connections[pool_key] = conn
PoolWithNew(pool, pool_key, conn) == Put(pool, pool_key, conn)

\* del self.sftp_connections[pool_key]
Del(d, k) == [x \in (DOMAIN d) \ {k} |-> d[x]]

\* variant: a sleep follows the last attempt too
ShouldSleepAlways(attempt) == TRUE

\* if attempt < 2
ShouldSleep(attempt) == attempt < LastSleepAttempt

\* variant: the same pause after every failure
BackoffFlat(attempt) == 1

\* 2 ** attempt
Backoff(attempt) == BackoffBase ^ attempt

\* get_sftp_connection from its entry to its first await or return; `check`
\* is what is_closed() of a pooled handle does: "answers" or "raises"
Acquire(c, server_config, check) ==
    /\ calls[c].pc = "idle"
    /\ IF ~ConfigComplete(server_config)
       THEN /\ calls' = [calls EXCEPT ![c] =
                           [IdleCall EXCEPT !.pc = "done", !.cfg = server_config]]
            /\ UNCHANGED <<sftp_connections, raised>>
       ELSE LET pool_key == PoolKey(server_config)
                begun == [IdleCall EXCEPT !.cfg = server_config, !.key = pool_key]
            IN  IF pool_key \in DOMAIN sftp_connections
                THEN LET conn == sftp_connections[pool_key]
                         said == IF check = "raises" THEN "raises"
                                 ELSE conns[conn].state
                         met == [begun EXCEPT !.found = conn, !.check = said]
                     IN  /\ raised' = (raised \/ check = "raises")
                         /\ IF IsReusable(conns[conn].state, check)
                            THEN /\ calls' = [calls EXCEPT ![c] =
                                       [met EXCEPT !.pc = "done", !.result = conn,
                                                   !.ret_pool = Get(sftp_connections,
                                                                    pool_key, NoConn)]]
                                 /\ UNCHANGED sftp_connections
                            ELSE /\ sftp_connections' = Del(sftp_connections, pool_key)
                                 /\ calls' = [calls EXCEPT ![c] =
                                       [met EXCEPT !.pc = "connect"]]
                ELSE /\ calls' = [calls EXCEPT ![c] = [begun EXCEPT !.pc = "connect"]]
                     /\ UNCHANGED <<sftp_connections, raised>>
    /\ overlapped' = (overlapped \/ \E d \in CallIds \ {c} :
                                        calls[d].pc \in {"connect", "sleep"})
    /\ UNCHANGED conns
    /\ UNCHANGED <<parserVars, restVars>>

\* the call after a failed attempt that the retry loop catches
AfterFailure(call, outcome) ==
    LET failed == [call EXCEPT !.attempts = @ + 1, !.fails = Append(@, outcome)]
    IN  IF ShouldSleep(call.attempt)
        THEN [failed EXCEPT !.pc = "sleep",
                            !.sleeps = Append(@, Backoff(call.attempt))]
        ELSE IF call.attempt + 1 < ConnectAttempts
        THEN [failed EXCEPT !.attempt = @ + 1]
        ELSE [failed EXCEPT !.pc = "done", !.result = NoConn]

\* one asyncssh.connect under asyncio.wait_for: it returns a connection, or
\* raises TimeoutError or asyncssh.Error (caught in the loop), or raises
\* something else (caught by the outer handler, which returns None)
Connect(c, outcome) ==
    /\ calls[c].pc = "connect"
    /\ LET call == calls[c] IN
       IF outcome = "connected"
       THEN /\ Len(conns) < MaxConns
            /\ LET conn == Len(conns) + 1 IN
               /\ conns' = Append(conns, [key |-> call.key, state |-> "open"])
               /\ sftp_connections' = PoolWithNew(sftp_connections, call.key, conn)
               /\ calls' = [calls EXCEPT ![c] =
                     [call EXCEPT !.pc = "done", !.result = conn,
                                  !.attempts = @ + 1,
                                  !.ret_pool = Get(sftp_connections', call.key, NoConn)]]
       ELSE IF outcome \in {"timeout", "ssh_error"}
       THEN /\ calls' = [calls EXCEPT ![c] = AfterFailure(call, outcome)]
            /\ UNCHANGED <<sftp_connections, conns>>
       ELSE /\ calls' = [calls EXCEPT ![c] =
                  [call EXCEPT !.pc = "done", !.result = NoConn,
                               !.attempts = @ + 1, !.fails = Append(@, outcome)]]
            /\ UNCHANGED <<sftp_connections, conns>>
    /\ UNCHANGED <<raised, overlapped>>
    /\ UNCHANGED <<parserVars, restVars>>

ConnectOutcomes == {"connected", "timeout", "ssh_error", "other_error"}

\* asyncio.sleep returns: the next turn of the retry loop
WakeUp(c) ==
    /\ calls[c].pc = "sleep"
    /\ calls' = [calls EXCEPT ![c] =
          IF calls[c].attempt + 1 < ConnectAttempts
          THEN [@ EXCEPT !.pc = "connect", !.attempt = @ + 1]
          ELSE [@ EXCEPT !.pc = "done", !.result = NoConn]]
    /\ UNCHANGED <<sftp_connections, conns, raised, overlapped>>
    /\ UNCHANGED <<parserVars, restVars>>

\* the caller has taken the result; the slot is free for the next call
CallReturned(c) ==
    /\ calls[c].pc = "done"
    /\ calls' = [calls EXCEPT ![c] = IdleCall]
    /\ UNCHANGED <<sftp_connections, conns, raised, overlapped>>
    /\ UNCHANGED <<parserVars, restVars>>

\* the server or the network closes a connection
ConnectionLost(k) ==
    /\ conns[k].state = "open"
    /\ conns' = [conns EXCEPT ![k].state = "closed"]
    /\ UNCHANGED <<sftp_connections, calls, raised, overlapped>>
    /\ UNCHANGED <<parserVars, restVars>>

\* the configs and outcomes of the runs with two calls under way
SharedConfigs ==
    { FullConfig,
      [host |-> "h1", port |-> OtherPort, username |-> "u1", password |-> "pw"] }

SharedOutcomes == {"connected", "timeout"}

\* calls of get_sftp_connection that interleave at their awaits
NextPool ==
    \/ \E c \in CallIds, cfg \in SharedConfigs : Acquire(c, cfg, "answers")
    \/ \E c \in CallIds, outcome \in SharedOutcomes : Connect(c, outcome)
    \/ \E c \in CallIds : WakeUp(c)
    \/ \E c \in CallIds : CallReturned(c)
    \/ \E k \in 1..Len(conns) : ConnectionLost(k)

SpecPool == Init /\ [][NextPool]_vars

\* calls of get_sftp_connection one after the other, as the passes of
\* run_log_parser make them
NextPoolSeq ==
    \/ \E cfg \in ServerConfigs, check \in {"answers", "raises"} :
          Acquire(1, cfg, check)
    \/ \E outcome \in ConnectOutcomes : Connect(1, outcome)
    \/ WakeUp(1)
    \/ CallReturned(1)
    \/ \E k \in 1..Len(conns) : ConnectionLost(k)

SpecPoolSeq == Init /\ [][NextPoolSeq]_vars

-----------------------------------------------------------------------------
(* cleanup_guild_state over the dictionaries and the pool *)

\* the tenants of the runs with cleanup_guild_state, one per guild
CleanTenants == { <<"g1", "s1">>, <<"g2", "s1">> }

CleanKinds == { RegisteredLine("abc") }

\* the SFTP settings of each guild's server: a plain host for g1, and for
\* g2 a host whose name begins like the keys of g1
CleanConfig(guild_id) ==
    IF guild_id = "g1" THEN FullConfig
    ELSE [host |-> "g1_h", username |-> "u1", password |-> "pw"]

\* the guild g of which the host name begins with f"{g}_", if any
HostGuildPrefix(host) == IF host = "g1_h" THEN "g1" ELSE NoValue

\* k.startswith(guild_prefix) of a pool key f"{host}:{port}:{username}"
PoolKeyStartsWith(pool_key, guild_id) == HostGuildPrefix(pool_key[1]) = guild_id

\* cleanup_guild_state: no await, so it runs between two awaits of whatever
\* else is under way.  close() of the handle ends the connection; what it
\* raises is swallowed
cleanup_guild_state(guild_id) ==
    LET Cleaned(state_dict) == Without(state_dict, OfGuild(state_dict, guild_id))
        conn_keys_to_remove ==
            { k \in DOMAIN sftp_connections : PoolKeyStartsWith(k, guild_id) }
        closed == { sftp_connections[k] : k \in conn_keys_to_remove }
    IN  /\ file_states' = Cleaned(file_states)
        /\ player_sessions' = Cleaned(player_sessions)
        /\ server_status' = Cleaned(server_status)
        /\ player_lifecycle' = Cleaned(player_lifecycle)
        /\ last_log_position' = Cleaned(last_log_position)
        /\ log_file_hashes' = Cleaned(log_file_hashes)
        /\ conns' = [k \in 1..Len(conns) |->
                       IF k \in closed THEN [conns[k] EXCEPT !.state = "closed"]
                       ELSE conns[k]]
        /\ sftp_connections' = Without(sftp_connections, conn_keys_to_remove)
        /\ UNCHANGED <<log, store, sent, pc, pass, hist, local_file, run>>
        /\ UNCHANGED <<calls, raised, overlapped, routeVars, botVars, taskVars>>

\* passes of two guilds, the connections of their servers, and
\* cleanup_guild_state called at any point
NextCleanup ==
    \/ \E t \in CleanTenants, line \in CleanKinds : AppendLine(t, line, MaxCleanLen)
    \/ \E t \in CleanTenants : BeginPass(t, "read", TRUE) /\ UNCHANGED run
    \/ ParseLogContent
    \/ SendEmbeds
    \/ FinishPass
    \/ \E t \in CleanTenants : Acquire(1, CleanConfig(t[1]), "answers")
    \/ Connect(1, "connected")
    \/ CallReturned(1)
    \/ \E guild_id \in {"g1", "g2"} : cleanup_guild_state(guild_id)

SpecCleanup == Init /\ [][NextCleanup]_vars

-----------------------------------------------------------------------------
(* The startup task _load_persistent_state beside a pass *)

\* the process is restarted between passes: __init__ empties the
\* dictionaries and creates the task that loads file_states
Construct ==
    /\ pc = "idle"
    /\ loader.starts < MaxStarts
    /\ last_log_position' = EmptyDict
    /\ player_sessions' = EmptyDict
    /\ player_lifecycle' = EmptyDict
    /\ file_states' = EmptyDict
    /\ pass' = NoPass
    /\ hist' = [t \in AllTenants |-> [hist[t] EXCEPT !.valid = FALSE]]
    /\ loader' = [pc |-> "created", doc |-> EmptyDict, starts |-> loader.starts + 1]
    /\ UNCHANGED <<log, store, sent, pc, local_file, run, other>>
    /\ UNCHANGED <<poolVars, routeVars, trackVars, botVars>>

\* the task runs to its await of find_one
LoadBegin ==
    /\ loader.pc = "created"
    /\ file_states' = EmptyDict
    /\ loader' = [loader EXCEPT !.pc = "find_one"]
    /\ UNCHANGED <<log, last_log_position, store, player_sessions, player_lifecycle,
                   sent, pc, pass, hist, local_file, run, other>>
    /\ UNCHANGED <<poolVars, routeVars, trackVars, botVars>>

\* the database answers the query with the document it holds; what it
\* holds is older than anything a pass writes from now on
LoadRead ==
    /\ loader.pc = "find_one"
    /\ loader' = [loader EXCEPT !.pc = "found", !.doc = Aged(store)]
    /\ UNCHANGED <<parserVars, other>>
    /\ UNCHANGED <<poolVars, routeVars, trackVars, botVars>>

\* variant: the loaded entries do not replace those written since
FileStatesLoadedUnder(states, doc) ==
    [t \in (DOMAIN doc) \cup (DOMAIN states) |->
        IF t \in DOMAIN states THEN states[t] ELSE doc[t]]

\* self.file_states = state_doc['file_states'], when there is a document
FileStatesLoaded(states, doc) == IF doc = EmptyDict THEN states ELSE doc

\* the task resumes with the answer and ends
LoadEnd ==
    /\ loader.pc = "found"
    /\ file_states' = FileStatesLoaded(file_states, loader.doc)
    /\ loader' = [loader EXCEPT !.pc = "finished"]
    /\ UNCHANGED <<log, last_log_position, store, player_sessions, player_lifecycle,
                   sent, pc, pass, hist, local_file, run, other>>
    /\ UNCHANGED <<poolVars, routeVars, trackVars, botVars>>

LoadKinds == { RegisteredLine("abc") }

\* passes of a tenant and restarts after which the startup task runs beside
\* them.  The task was created before the pass was called, so it has run to
\* its first await when the fetch of the pass returns
NextLoad ==
    \/ \E t \in Tenants, line \in LoadKinds : AppendLine(t, line, MaxLoadLen)
    \/ \E t \in Tenants :
          loader.pc # "created" /\ BeginPass(t, "read", TRUE) /\ UNCHANGED run
    \/ ParseLogContent
    \/ SendEmbeds
    \/ FinishPass
    \/ Construct
    \/ LoadBegin
    \/ LoadRead
    \/ LoadEnd

SpecLoad == Init /\ [][NextLoad]_vars

-----------------------------------------------------------------------------
(* Two calls of parse_server_logs under way at once.  The event loop runs   *)
(* one of them at a time; `other` holds the one that waits at its await.   *)

\* the call that runs is suspended at the await it has reached (or has
\* returned), and the event loop resumes the other one (or leaves it to a
\* caller to begin one)
Switch ==
    /\ <<pc, pass>> # <<other.pc, other.pass>>
    /\ pc # "idle" \/ other.pc # "idle"
    /\ pc' = other.pc
    /\ pass' = other.pass
    /\ other' = [pc |-> pc, pass |-> pass]
    /\ UNCHANGED <<log, last_log_position, file_states, store, player_sessions,
                   player_lifecycle, sent, hist, local_file, run, loader>>
    /\ UNCHANGED <<poolVars, routeVars, trackVars, botVars>>

OverlapKinds == { RegisteredLine("abc") }

\* passes of one tenant that overlap at their awaits, over a log that only
\* grows, in a process that is not restarted
NextOverlap ==
    \/ \E t \in Tenants, line \in OverlapKinds : AppendLine(t, line, MaxOverlapLen)
    \/ \E t \in Tenants : BeginPass(t, "read", TRUE) /\ UNCHANGED run
    \/ ParseLogContent
    \/ SendEmbeds
    \/ FinishPass
    \/ Switch

SpecOverlap == Init /\ [][NextOverlap]_vars

-----------------------------------------------------------------------------
(* The bot (src/main.py): on_ready, close and shutdown *)

\* variant: the guard of on_ready is never taken
SetupGuardOff(b) == FALSE

\* hasattr(self, '_setup_complete')
SetupGuard(b) == b.setup_complete

\* on_ready from its entry to its first suspension: the guard, then
\* load_cogs (which awaits nothing), then asyncio.sleep(2.0)
OnReady(r) ==
    /\ bot.state = "up"
    /\ bot.ready[r] = "idle"
    /\ bot' = IF SetupGuard(bot)
              THEN [bot EXCEPT !.ready[r] = "skipped"]
              ELSE [bot EXCEPT !.ready[r] = "sleep", !.cogs = @ + 1]
    /\ UNCHANGED <<parserVars, poolVars, routeVars, trackVars, taskVars>>

\* asyncio.sleep(2.0) returns; register_commands_safely is awaited
SleepReturned(r) ==
    /\ bot.state = "up"
    /\ bot.ready[r] = "sleep"
    /\ bot' = [bot EXCEPT !.ready[r] = "register", !.syncs = @ + 1]
    /\ UNCHANGED <<parserVars, poolVars, routeVars, trackVars, taskVars>>

\* register_commands_safely returns; setup_database is awaited
RegisterReturned(r) ==
    /\ bot.state = "up"
    /\ bot.ready[r] = "register"
    /\ bot' = [bot EXCEPT !.ready[r] = "database", !.databases = @ + 1]
    /\ UNCHANGED <<parserVars, poolVars, routeVars, trackVars, taskVars>>

\* setup_database returns and on_ready runs to its end without another
\* await.  db_success: the parsers were created.  Without them
\* self.unified_parser is an attribute __init__ never set, and reading it
\* raises.  add_job_raises: what add_job does with an id the scheduler
\* holds already
SetupDatabaseReturned(r, db_success, add_job_raises) ==
    /\ bot.state = "up"
    /\ bot.ready[r] = "database"
    /\ LET created == IF db_success
                      THEN [bot EXCEPT !.killfeed_parser = "killfeed",
                                       !.unified_parser = "unified"]
                      ELSE bot
       IN  bot' = IF created.unified_parser = NoParser
                  THEN [created EXCEPT !.ready[r] = "raised"]
                  ELSE IF created.scheduled /\ add_job_raises
                  THEN [created EXCEPT !.ready[r] = "raised", !.jobs = @ + 1]
                  ELSE [created EXCEPT !.ready[r] = "done", !.jobs = @ + 1,
                                       !.scheduled = TRUE,
                                       !.setup_complete = TRUE]
    /\ UNCHANGED <<parserVars, poolVars, routeVars, trackVars, taskVars>>

\* the connections of the pool that are open
OpenPooled(pool, cs) ==
    { k \in 1..Len(cs) : cs[k].state = "open"
                          /\ \E key \in DOMAIN pool : pool[key] = k }

\* the connections after cleanup_connections: it closes the handles of
\* self.log_parser.sftp_pool when self.log_parser is set; the pool of the
\* unified log parser is self.unified_parser.sftp_connections
ConnsAfterCleanup(b, pool, cs) ==
    IF b.log_parser = "unified"
    THEN [k \in 1..Len(cs) |->
             IF \E key \in DOMAIN pool : pool[key] = k
             THEN [cs[k] EXCEPT !.state = "closed"] ELSE cs[k]]
    ELSE cs

\* the pool after cleanup_connections
PoolAfterCleanup(b, pool) == IF b.log_parser = "unified" THEN EmptyDict ELSE pool

\* close or shutdown: cleanup_connections, then the scheduler, the
\* database client and the gateway are shut down
ShutDown(how) ==
    /\ bot.state = "up"
    /\ conns' = ConnsAfterCleanup(bot, sftp_connections, conns)
    /\ sftp_connections' = PoolAfterCleanup(bot, sftp_connections)
    /\ bot' = [bot EXCEPT !.state = "closed", !.closed_by = how,
                          !.scheduled = FALSE,
                          !.left_open = OpenPooled(sftp_connections', conns')]
    /\ UNCHANGED <<calls, raised, overlapped>>
    /\ UNCHANGED <<parserVars, routeVars, trackVars, taskVars>>

\* the bot is up and its unified log parser exists
ParserRuns == bot.state = "up" /\ bot.unified_parser = "unified"

\* the bot from its start to its shutdown, with the pool of its unified
\* log parser
NextBot ==
    \/ \E r \in 1..MaxReady : OnReady(r)
    \/ \E r \in 1..MaxReady : SleepReturned(r)
    \/ \E r \in 1..MaxReady : RegisterReturned(r)
    \/ \E r \in 1..MaxReady, db_success \in BOOLEAN, add_job_raises \in BOOLEAN :
          SetupDatabaseReturned(r, db_success, add_job_raises)
    \/ \E cfg \in SharedConfigs : ParserRuns /\ Acquire(1, cfg, "answers")
    \/ ParserRuns /\ Connect(1, "connected")
    \/ ParserRuns /\ CallReturned(1)
    \/ \E k \in 1..Len(conns) : ParserRuns /\ ConnectionLost(k)
    \/ \E how \in {"close", "shutdown"} : ShutDown(how)

SpecBot == Init /\ [][NextBot]_vars

-----------------------------------------------------------------------------
(* Channel routing: get_server_channel and the loop of send_log_embeds.    *)

\* no channel: the None that get_server_channel and bot.get_channel return
NoChannel == 0

\* the places of a guild document where a channel id can be configured, each
\* with the id put there: 1..3 for 'connections' and 4..6 for 'killfeed', in
\* server_channels[server_id], in server_channels['default'] and in the
\* legacy 'channels'
Slots == 1..6

SlotOwner(k) ==
    IF k \in {1, 4} THEN "s1" ELSE IF k \in {2, 5} THEN "default" ELSE "legacy"

SlotType(k) == IF k <= 3 THEN "connections" ELSE "killfeed"

\* the channels configured under one owner, channel type -> channel id
ChannelsOf(S, owner) ==
    LET mine == { k \in S : SlotOwner(k) = owner }
    IN  [ty \in { SlotType(k) : k \in mine } |->
            CHOOSE k \in mine : SlotType(k) = ty]

\* the guild document in which the slots S are configured
GuildDoc(S) ==
    LET owners == { SlotOwner(k) : k \in S } \ {"legacy"}
    IN  [server_channels |-> [o \in owners |-> ChannelsOf(S, o)],
         channels |-> ChannelsOf(S, "legacy")]

\* variant: the legacy structure is not looked at
get_server_channel_without_legacy(config, guild_id, server_id, channel_type) ==
    IF guild_id \notin DOMAIN config THEN NoChannel
    ELSE
    LET guild_doc == config[guild_id]
        server_channels == Get(guild_doc, "server_channels", EmptyDict)
        of_server == Get(Get(server_channels, server_id, EmptyDict),
                         channel_type, NoChannel)
        of_default == Get(Get(server_channels, "default", EmptyDict),
                          channel_type, NoChannel)
        server_killfeed == Get(Get(server_channels, server_id, EmptyDict),
                               "killfeed", NoChannel)
        default_killfeed == Get(Get(server_channels, "default", EmptyDict),
                                "killfeed", NoChannel)
    IN  IF of_server # NoChannel THEN of_server
        ELSE IF of_default # NoChannel THEN of_default
        ELSE IF channel_type = "killfeed" THEN NoChannel
        ELSE IF server_killfeed # NoChannel THEN server_killfeed
        ELSE default_killfeed

\* get_server_channel: priority 1 the server's channel of the type, 2 the
\* default server's, 3 (for a type other than killfeed) the killfeed channel
\* of the server, of the default server, of the legacy structure, 4 the
\* legacy channel of the type, 5 the legacy killfeed channel
get_server_channel(config, guild_id, server_id, channel_type) ==
    IF guild_id \notin DOMAIN config THEN NoChannel
    ELSE
    LET guild_doc == config[guild_id]
        server_channels == Get(guild_doc, "server_channels", EmptyDict)
        legacy == Get(guild_doc, "channels", EmptyDict)
        of_server == Get(Get(server_channels, server_id, EmptyDict),
                         channel_type, NoChannel)
        of_default == Get(Get(server_channels, "default", EmptyDict),
                          channel_type, NoChannel)
        server_killfeed == Get(Get(server_channels, server_id, EmptyDict),
                               "killfeed", NoChannel)
        default_killfeed == Get(Get(server_channels, "default", EmptyDict),
                                "killfeed", NoChannel)
        legacy_killfeed == Get(legacy, "killfeed", NoChannel)
        fallback_channel ==
            IF server_killfeed # NoChannel THEN server_killfeed
            ELSE IF default_killfeed # NoChannel THEN default_killfeed
            ELSE legacy_killfeed
        legacy_channel_id == Get(legacy, channel_type, NoChannel)
    IN  IF of_server # NoChannel THEN of_server
        ELSE IF of_default # NoChannel THEN of_default
        ELSE IF channel_type # "killfeed" /\ fallback_channel # NoChannel
        THEN fallback_channel
        ELSE IF legacy_channel_id # NoChannel THEN legacy_channel_id
        ELSE IF channel_type # "killfeed" THEN legacy_killfeed
        ELSE NoChannel

\* channel_mapping of send_log_embeds; NoValue for a type it does not hold
ChannelMapping(embed_type) ==
    IF embed_type \in {"mission_event", "airdrop_event", "helicrash_event",
                       "trader_event", "vehicle_event"}
    THEN "events"
    ELSE IF embed_type \in {"player_connection", "player_disconnection"}
    THEN "connections"
    ELSE NoValue

\* the events of the batches of the model: the two kinds parse_server_logs
\* hands over, and one of a type the mapping does not hold
RouteEvents ==
    { [type |-> "player_connection",
       embed |-> ConnectionEmbed("abc", "Test", "joined", 1, "player_registered")],
      [type |-> "mission_event",
       embed |-> process_mission_event("GA_Bunker_01_Mis1", "READY", 0, 2,
                                       "mission_state_change")],
      [type |-> "restart_event",
       embed |-> Embed("Server Restart", "", <<>>, 0, "", 3, "none")] }

Batches == UNION { [1..n -> RouteEvents] : n \in 0..MaxBatch }

\* an administrator sets the channels of a guild, between two calls of
\* send_log_embeds
Configure(g, S) ==
    /\ router.state = "off"
    /\ IF g \in DOMAIN guild_config THEN guild_config[g] # GuildDoc(S) ELSE TRUE
    /\ guild_config' = Put(guild_config, g, GuildDoc(S))
    /\ UNCHANGED <<parserVars, poolVars, router, trackVars, botVars, taskVars>>

\* send_log_embeds is called; `if not embeds_data: return`
SendLogEmbeds(g, s, embeds_data) ==
    /\ router.state = "off"
    /\ router' = [NoBatch EXCEPT !.state = IF embeds_data = <<>> THEN "done"
                                           ELSE "running",
                                 !.guild = g, !.server = s,
                                 !.batch = embeds_data]
    /\ UNCHANGED <<parserVars, poolVars, guild_config, trackVars, botVars, taskVars>>

\* variant: a failed delivery ends the loop
AfterAttemptStopOnFailure(i, n, outcome) ==
    IF outcome = "sent" THEN i + 1 ELSE n + 1

\* where the loop goes after an event: `continue`, or the end of the body,
\* whose handler only logs
AfterAttempt(i, n, outcome) == i + 1

\* one iteration of the loop over embeds_data.  found: bot.get_channel knows
\* the channel; send_ok: channel.send does not raise
DeliverNext(found, send_ok) ==
    /\ router.state = "running"
    /\ LET embed_data == router.batch[router.i]
           channel_type == ChannelMapping(embed_data.type)
           channel_id == IF channel_type = NoValue THEN NoChannel
                         ELSE get_server_channel(guild_config, router.guild,
                                                 router.server, channel_type)
           outcome == IF channel_type = NoValue THEN "unknown_type"
                      ELSE IF channel_id = NoChannel THEN "no_channel"
                      ELSE IF ~found THEN "not_found"
                      ELSE IF ~send_ok THEN "send_failed"
                      ELSE "sent"
           next == AfterAttempt(router.i, Len(router.batch), outcome)
       IN  router' = [router EXCEPT
                        !.attempts = Append(@, [n |-> router.i,
                                                type |-> embed_data.type,
                                                channel_type |-> channel_type,
                                                channel_id |-> channel_id,
                                                outcome |-> outcome]),
                        !.i = next,
                        !.state = IF next > Len(router.batch) THEN "done"
                                  ELSE "running"]
    /\ UNCHANGED <<parserVars, poolVars, guild_config, trackVars, botVars, taskVars>>

\* send_log_embeds has returned: its locals are gone
SendReturned ==
    /\ router.state = "done"
    /\ router' = NoBatch
    /\ UNCHANGED <<parserVars, poolVars, guild_config, trackVars, botVars, taskVars>>

\* the event router over batches of events and the channel configurations
NextRoute ==
    \/ \E S \in SUBSET Slots : Configure("g1", S)
    \/ \E embeds_data \in Batches : SendLogEmbeds("g1", "s1", embeds_data)
    \/ \E found, send_ok \in BOOLEAN : DeliverNext(found, send_ok)
    \/ SendReturned

SpecRoute == Init /\ [][NextRoute]_vars

-----------------------------------------------------------------------------
(* Properties.  They read the history kept in `pass`: the state before the *)
(* pass (pass.pre), the fetched content, the line numbers that entered the *)
(* loop body (pass.seen) and the events handed over (pass.handed).         *)

\* the pass has just returned from the position update at its end
PassDone == pc = "idle" /\ pass.outcome = "completed"

\* the pass has returned, by any of its returns
PassReturned ==
    pc = "idle" /\ pass.outcome \in {"no_content", "no_new_lines", "completed"}

\* the checkpoint and the position the pass started from
PreFileState == Get(pass.pre.file_states, pass.t, NoFileState)
PrePosition == Get(pass.pre.last_log_position, pass.t, 0)

\* before the pass the log of N >= 1 lines was fully processed
FullyProcessedBefore ==
    /\ PrePosition >= 1
    /\ PreFileState.line_count = PrePosition
    /\ PreFileState.cold_start_complete

\* the event patterns that match a line
MatchesEvent(line) ==
    line.resp # <<>> \/ line.st # <<>> \/ line.reg # <<>> \/ line.disc # <<>>

\* C1: after a log of N >= 1 lines was fully processed and M >= 1 lines were
\* appended, the next pass runs the pattern matching loop over exactly the
\* appended lines N+1 .. N+M (stated for passes that the safety break does
\* not cut short and whose last line is not empty).
C1_Incrementality ==
    ( /\ PassDone
      /\ FullyProcessedBefore
      /\ pass.total > PrePosition
      /\ ~pass.stop
      /\ ~pass.content[pass.total].empty )
    => pass.seen = (PrePosition + 1)..pass.total

\* C2: a run over the same content as the previous run of the process
\* leaves the in-memory checkpoint, the position and the persisted document
\* as they were, and sends nothing.
C2_Idempotence ==
    (pass.outcome # "none" /\ pass.same)
    => /\ file_states = pass.pre.file_states
       /\ last_log_position = pass.pre.last_log_position
       /\ store = pass.pre.store
       /\ Len(sent) = pass.pre.nsent

\* C2 witness: a second run over unchanged, already processed content has
\* returned, after events were sent earlier
C2_Witness ==
    /\ PassReturned
    /\ pass.same
    /\ pass.outcome = "no_new_lines"
    /\ Len(sent) > 0

\* the tenant had no checkpoint, neither in memory nor in the store
FirstEverPass ==
    /\ pass.outcome \in {"running", "completed"}
    /\ pass.t \notin DOMAIN pass.pre.file_states
    /\ pass.t \notin DOMAIN pass.pre.store
    /\ pass.t \notin DOMAIN pass.pre.last_log_position

\* C3: a tenant's first-ever pass hands no event to send_log_embeds.
C3_ColdStartSuppression ==
    FirstEverPass => (pass.handed = <<>> /\ Len(sent) = pass.pre.nsent)

\* C3 witness: a first-ever pass over a log with matching lines is done
C3_Witness ==
    /\ PassDone
    /\ FirstEverPass
    /\ pass.events >= 2
    /\ \E i \in 1..pass.total : MatchesEvent(pass.content[i])

\* the player has a registration line in the content
HasRegistration(content, p) == \E i \in 1..Len(content) : content[i].reg = <<p>>

\* the number of the last line of the content that registers or disconnects p
LastConnectionLine(content, p) ==
    CHOOSE i \in 1..Len(content) :
        /\ content[i].reg = <<p>> \/ content[i].disc = <<p>>
        /\ \A j \in (i + 1)..Len(content) :
               content[j].reg # <<p>> /\ content[j].disc # <<p>>

C5_CheckpointBeforeEmit ==
    (pc = "finish" /\ pass.handed # <<>>)
    => /\ pass.t \in DOMAIN store
       /\ store[pass.t].line_count = pass.total
       /\ store[pass.t].cold_start_complete

\* C6 as claimed: no log line leads to more than one event handed to
\* send_log_embeds.
C6_AtMostOnePerLine ==
    \A i, j \in 1..Len(sent) :
        i # j => sent[i].embed.src # sent[j].embed.src

\* C6 as amended: no match of an event pattern on a log line leads to more
\* than one event handed to send_log_embeds (a line that several event
\* patterns match gives one event per pattern).
C6_AtMostOncePerMatch ==
    \A i, j \in 1..Len(sent) :
        i # j => <<sent[i].embed.src, sent[i].embed.pat>>
                   # <<sent[j].embed.src, sent[j].embed.pat>>

\* C6 witness: events of two different passes have been sent, the later
\* pass a hot one over appended lines
C6_Witness ==
    /\ PassDone
    /\ ~pass.cold
    /\ pass.handed # <<>>
    /\ pass.pre.nsent > 0

\* C7, in the form a finite run decides: once a hot pass has moved the
\* position past a line appended after the cold start, no later pass reads
\* that line again, so its event must have been sent by then.
C7_AppendedLinesDelivered ==
    pc = "idle"
    => \A t \in Tenants :
         \A i \in 1..Len(log[t]) :
            ( /\ hist[t].coldUpTo > 0
              /\ i > hist[t].coldUpTo
              /\ i <= Get(last_log_position, t, 0)
              /\ ~hist[t].tripped
              /\ MatchesEvent(log[t][i]) )
            => \E k \in 1..Len(sent) : sent[k].embed.src = i

\* C8: a pass runs in cold-start mode exactly when the checkpoint it starts
\* from does not have cold_start_complete = true.
C8_ModeFromCheckpoint ==
    pass.outcome \in {"running", "completed"}
    => (pass.cold <=> ~PreFileState.cold_start_complete)

\* the pass started right after a restart: the in-memory dictionaries empty,
\* the tenant's checkpoint loaded from the store
ResumedPass ==
    /\ PassDone
    /\ DOMAIN pass.pre.last_log_position = {}
    /\ DOMAIN pass.pre.player_sessions = {}
    /\ DOMAIN pass.pre.player_lifecycle = {}
    /\ pass.t \in DOMAIN pass.pre.file_states
    /\ pass.pre.file_states = pass.pre.store

\* C9 as claimed: the pass after a restart with persisted line_count = N runs
\* the loop over exactly the lines N+1 .. T (none when T <= N).
C9_ResumeAllNewLines ==
    ResumedPass => pass.seen = (PreFileState.line_count + 1)..pass.total

\* C9 as amended: ... over exactly the lines N+1 .. T, except that a final
\* empty line of the log does not enter the loop.
C9_ResumeAfterRestart ==
    ResumedPass
    => pass.seen = {i \in (PreFileState.line_count + 1)..pass.total :
                       ~(i = pass.total /\ pass.content[i].empty)}

\* C9 witness: a pass after a restart ran the loop over appended lines only
C9_Witness ==
    /\ ResumedPass
    /\ PreFileState.line_count >= 1
    /\ pass.seen # {}
    /\ 1 \notin pass.seen

\* C10: a hot pass whose new lines are queue-join abc/Test, registered abc,
\* disconnect abc hands over exactly Connected "Test" then Disconnected
\* "Test", leaves abc offline and the guild's online count as it was (abc
\* not being online before the pass), for every N >= 1.
C10_PlayerExample ==
    ( /\ PassDone
      /\ FullyProcessedBefore
      /\ pass.total = PrePosition + 3
      /\ SubSeq(pass.content, PrePosition + 1, pass.total)
           = << QueueJoinLine("abc", "Test"), RegisteredLine("abc"),
                DisconnectLine("abc") >>
      /\ Get(pass.pre.player_sessions, <<pass.t[1], "abc">>,
             [status |-> "none"]).status # "online" )
    => /\ Len(pass.handed) = 2
       /\ pass.handed[1].embed.title = "Player Connected"
       /\ pass.handed[1].embed.name = "Test"
       /\ pass.handed[2].embed.title = "Player Disconnected"
       /\ pass.handed[2].embed.name = "Test"
       /\ <<pass.t[1], "abc">> \in DOMAIN player_sessions
       /\ player_sessions[<<pass.t[1], "abc">>].status = "offline"
       /\ OnlineCount(player_sessions, pass.t[1])
            = OnlineCount(pass.pre.player_sessions, pass.t[1])

\* the events handed over by the pass are in the order of their source lines
InSourceOrder(handed) ==
    \A i, j \in 1..Len(handed) :
        i < j => handed[i].embed.src <= handed[j].embed.src

\* C11: a hot pass whose new lines are the state changes READY, IN_PROGRESS,
\* COMPLETED of one mission id hands over exactly three events, in that
\* order, with the same normalized name and the same level; and the events
\* a pass hands over are in the order of their source lines.
C11_MissionOrdering ==
    /\ PassDone => InSourceOrder(pass.handed)
    /\ \A m \in MissionIds :
         ( /\ PassDone
           /\ FullyProcessedBefore
           /\ pass.total = PrePosition + 3
           /\ SubSeq(pass.content, PrePosition + 1, pass.total)
                = << StateLine(m, "READY"), StateLine(m, "IN_PROGRESS"),
                     StateLine(m, "COMPLETED") >> )
         => /\ Len(pass.handed) = 3
            /\ pass.handed[1].embed.state = "READY"
            /\ pass.handed[2].embed.state = "IN_PROGRESS"
            /\ pass.handed[3].embed.state = "COMPLETED"
            /\ \A i \in 1..3 :
                  /\ pass.handed[i].embed.id = m
                  /\ pass.handed[i].embed.name = normalize_mission_name(m)
                  /\ pass.handed[i].embed.level = get_mission_level(m)

\* the limit of the safety check for a loop over nlines lines
MaxEvents(nlines, cold_start_mode) ==
    IF cold_start_mode THEN nlines * ColdLimitFactor ELSE nlines * HotLimitFactor

\* C12: in a parse over L lines, a line at whose end the number of produced
\* events exceeds 2 x L (hot mode; 5 x L in cold mode) is the last line run
\* through the loop body, and the loop is left by the branch that logs the
\* anomaly.
C12_SafetyBreaker ==
    \A k \in 1..Len(pass.after) :
        pass.after[k] > MaxEvents(pass.nlines, pass.cold)
        => (k = Len(pass.after) /\ pass.stop)

\* C12 witness: a hot parse has left the loop by the safety break with
\* lines of its range still to come
C12_Witness ==
    /\ pc = "send"
    /\ ~pass.cold
    /\ pass.stop
    /\ pass.events > HotLimitFactor * pass.nlines
    /\ Len(pass.after) < pass.nlines

\* the config lacks a host, a username or a password
LacksCredential(server_config) ==
    \E f \in {"host", "username", "password"} :
        f \notin DOMAIN server_config \/ server_config[f] = NoValue

\* C13: a call of get_sftp_connection with a config that lacks host,
\* username or password returns None at once, without a connect attempt and
\* with the pool and the connections as they were; and a handle returned for
\* a config without a port is a connection pooled under port 22.
C13_IncompleteConfig ==
    [][ \A c \in CallIds :
          (calls[c].pc = "idle" /\ calls'[c].pc # "idle")
          => /\ LacksCredential(calls'[c].cfg)
                => /\ calls'[c].pc = "done"
                   /\ calls'[c].result = NoConn
                   /\ calls'[c].attempts = 0
                   /\ sftp_connections' = sftp_connections
                   /\ conns' = conns
             /\ ( /\ ~LacksCredential(calls'[c].cfg)
                  /\ "port" \notin DOMAIN calls'[c].cfg )
                => calls'[c].key = <<calls'[c].cfg.host, 22, calls'[c].cfg.username>>
      ]_vars

\* C13 witness: a call with an incomplete config has returned None while the
\* pool holds a handle that a config without a port was given, under port 22
C13_Witness ==
    /\ calls[1].pc = "done"
    /\ LacksCredential(calls[1].cfg)
    /\ calls[1].result = NoConn
    /\ <<"h1", 22, "u1">> \in DOMAIN sftp_connections
    /\ \E k \in 1..Len(conns) : conns[k].key = <<"h1", 22, "u1">>

\* C14: a call that finds a handle pooled under its key returns that handle
\* without a connect attempt if the handle reports not closed; if it
\* reports closed, or the liveness check raises, the handle is no longer in
\* the pool and the call goes on to a fresh connect attempt.
C14_ReuseAndEviction ==
    \A c \in CallIds :
        calls[c].found # NoConn
        => IF calls[c].check = "open"
           THEN /\ calls[c].pc = "done"
                /\ calls[c].result = calls[c].found
                /\ calls[c].attempts = 0
           ELSE /\ Get(sftp_connections, calls[c].key, NoConn) # calls[c].found
                /\ \/ calls[c].pc \in {"connect", "sleep"}
                   \/ calls[c].pc = "done" /\ calls[c].attempts >= 1

\* C14 witness: a call found a closed handle in the pool and returned a
\* fresh connection, which the pool now holds in its place
C14_Witness ==
    \E c \in CallIds :
        /\ calls[c].pc = "done"
        /\ calls[c].found # NoConn
        /\ calls[c].check = "closed"
        /\ calls[c].result \notin {NoConn, calls[c].found}
        /\ sftp_connections[calls[c].key] = calls[c].result

\* every connect attempt the call has made failed with a timeout or an SSH
\* error
OnlyRetriedFailures(call) ==
    \A i \in 1..Len(call.fails) : call.fails[i] \in {"timeout", "ssh_error"}

\* C15: a call whose connect attempts all fail with a timeout or an SSH
\* error returns None after exactly 3 attempts, having slept 1 second after
\* the first failure and 2 seconds after the second and not after the
\* third, and the pool has no entry for its key; a call whose attempt k <= 3
\* succeeds returns that connection after k attempts and k - 1 sleeps.
C15_RetrySchedule ==
    \A c \in CallIds :
        LET call == calls[c] IN
        /\ call.attempts <= 3
        /\ ( /\ call.pc = "done"
             /\ call.result = NoConn
             /\ call.fails # <<>>
             /\ OnlyRetriedFailures(call) )
           => /\ call.attempts = 3
              /\ Len(call.fails) = 3
              /\ call.sleeps = <<1, 2>>
              /\ call.key \notin DOMAIN sftp_connections
        /\ ( /\ call.pc = "done"
             /\ call.result # NoConn
             /\ call.attempts >= 1 )
           => /\ call.attempts = Len(call.fails) + 1
              /\ OnlyRetriedFailures(call)
              /\ call.sleeps = SubSeq(<<1, 2>>, 1, Len(call.fails))

\* C15 witness: a call has returned None after three failed attempts, a
\* timeout among them and an SSH error among them
C15_Witness ==
    \E c \in CallIds :
        /\ calls[c].pc = "done"
        /\ calls[c].result = NoConn
        /\ calls[c].attempts = 3
        /\ OnlyRetriedFailures(calls[c])
        /\ \E i, j \in 1..3 : /\ calls[c].fails[i] = "timeout"
                               /\ calls[c].fails[j] = "ssh_error"

\* C16: a handle returned by get_sftp_connection is, at the moment of the
\* return, the value the pool holds under the call's key.
C16_PooledBeforeReturned ==
    \A c \in CallIds :
        (calls[c].pc = "done" /\ calls[c].result # NoConn)
        => calls[c].ret_pool = calls[c].result

\* C16 witness: one call has returned a connection it made and another call
\* has returned the same handle from the pool
C16_Witness ==
    \E c, d \in CallIds :
        /\ calls[c].pc = "done" /\ calls[d].pc = "done"
        /\ calls[c].result # NoConn
        /\ calls[c].attempts >= 1
        /\ calls[d].attempts = 0
        /\ calls[d].result = calls[c].result

\* no two open connections that the pool made have the same key
OneOpenPerKey ==
    \A j, k \in 1..Len(conns) :
        (j # k /\ conns[j].state = "open" /\ conns[k].state = "open")
        => conns[j].key # conns[k].key

\* C17 as claimed: after any calls of get_sftp_connection, interleaved ones
\* for the same key among them, at most one open connection made by the
\* pool exists per key.
C17_OneOpenPerKey == OneOpenPerKey

\* C17 as amended: ... after any calls of get_sftp_connection of which none
\* began while another was under way and in which no liveness check raised,
\* at most one open connection made by the pool exists per key, and it is
\* the one the pool holds.
C17_OneOpenPerKeySequential ==
    (~overlapped /\ ~raised)
    => /\ OneOpenPerKey
       /\ \A k \in 1..Len(conns) :
            conns[k].state = "open"
            => Get(sftp_connections, conns[k].key, NoConn) = k

\* C17 witness: calls made one after the other have made two connections
\* for one key, the first closed and evicted, the second open and pooled
C17_Witness ==
    /\ ~overlapped /\ ~raised
    /\ Len(conns) >= 2
    /\ conns[1].key = conns[2].key
    /\ conns[1].state = "closed"
    /\ conns[2].state = "open"
    /\ sftp_connections[conns[2].key] = 2

\* the local file of the pass's tenant before the pass
PreLocalFile == pass.pre.local_file[pass.t]

\* C18: when the remote read yields no content (no connection, no remote
\* file, or an error), the pass reads the local file; when there is no local
\* file it writes the fixture log to the local path and the fixture is the
\* content of the pass.
C18_FetcherFallback ==
    (pass.outcome # "none" /\ pass.remote # "read")
    => IF PreLocalFile.exists
       THEN /\ pass.src = "local"
            /\ pass.outcome # "local_error" => pass.content = PreLocalFile.lines
            /\ local_file[pass.t] = PreLocalFile
       ELSE /\ pass.src = "fixture"
            /\ pass.content = Fixture
            /\ local_file[pass.t] = File(Fixture)

\* C18 witness: a pass without remote content has read the local file,
\* which is the fixture that an earlier pass wrote and processed
C18_Witness ==
    /\ pc = "idle"
    /\ pass.outcome = "no_new_lines"
    /\ pass.remote \in {"no_connection", "no_file"}
    /\ pass.src = "local"
    /\ PreLocalFile = File(Fixture)
    /\ pass.content = Fixture

\* the pass obtained no content: the local file could not be read, or the
\* text fetched is empty or holds blank lines only
NothingFetched ==
    /\ pass.outcome # "none"
    /\ \/ pass.outcome = "local_error"
       \/ \A i \in 1..Len(pass.content) : pass.content[i].empty

\* C19: a pass that obtains no content returns with file_states,
\* last_log_position, player_sessions, player_lifecycle and the persisted
\* checkpoint as they were before it, and hands over no event.
C19_NoContentNoChange ==
    NothingFetched
    => /\ pc = "idle"
       /\ file_states = pass.pre.file_states
       /\ last_log_position = pass.pre.last_log_position
       /\ player_sessions = pass.pre.player_sessions
       /\ player_lifecycle = pass.pre.player_lifecycle
       /\ store = pass.pre.store
       /\ Len(sent) = pass.pre.nsent
       /\ pass.handed = <<>>

\* C19 witness: after a pass that left a checkpoint and a session, a pass
\* whose remote read failed could not read the local file and returned
C19_Witness ==
    /\ pass.outcome = "local_error"
    /\ pass.remote # "read"
    /\ pass.t \in DOMAIN file_states
    /\ pass.t \in DOMAIN store
    /\ player_sessions # EmptyDict

\* the server's host or id is absent, empty or the placeholder
BadServer(server) ==
    \/ "host" \notin DOMAIN server
    \/ "_id" \notin DOMAIN server
    \/ server.host \in {NoValue, "unknown"}
    \/ server._id \in {NoValue, "unknown"}

\* the places <<guild, server>> of the servers of the guilds that have an id
ServerPlaces(guilds_list) ==
    { <<g, s>> \in (1..Len(guilds_list)) \X (1..2) :
        /\ "_id" \in DOMAIN guilds_list[g]
        /\ s <= Len(guilds_list[g].servers) }

\* the loop has dealt with every server of the call's guilds, one visit each
AllServersVisited(r) ==
    /\ Len(r.visits) = Cardinality(ServerPlaces(r.guilds))
    /\ \A place \in ServerPlaces(r.guilds) :
         \E i \in 1..Len(r.visits) :
            /\ <<r.visits[i].g, r.visits[i].s>> = place
            /\ LET servers == r.guilds[place[1]].servers
                   server == servers[place[2]]
               IN  IF BadServer(server)
                   THEN r.visits[i].kind \in {"no_host", "no_id", "duplicate"}
                   ELSE IF \E k \in 1..(place[2] - 1) : servers[k] = server
                   THEN r.visits[i].kind = "duplicate"
                   ELSE r.visits[i].kind = "parse"

\* C20: in run_log_parser a server whose host or id is absent or 'unknown' is
\* skipped, with no fetch and no change of state; and whatever happens to a
\* server (a skip, or an exception while it is processed), every other
\* server of every guild of the call is dealt with: when the call returns,
\* each good server has had its call of parse_server_logs.
C20_SkipAndIsolation ==
    [][ /\ ( /\ Len(run'.visits) = Len(run.visits) + 1
             /\ run'.visits[Len(run'.visits)].kind # "parse" )
           => UNCHANGED <<log, last_log_position, file_states, store,
                          player_sessions, player_lifecycle, sent, pc, pass,
                          local_file, poolVars>>
        /\ \A i \in 1..Len(run'.visits) :
             BadServer(run'.guilds[run'.visits[i].g].servers[run'.visits[i].s])
             => run'.visits[i].kind # "parse"
        /\ run'.state = "done" => AllServersVisited(run')
      ]_vars

\* C20 witness: a call has returned in which one server was skipped for its
\* host or id, the pass of a later server ended in an exception, and a
\* server of the next guild was then processed to the end of its pass
C20_Witness ==
    /\ run.state = "done"
    /\ \E i, j, k \in 1..Len(run.visits) :
         /\ i < j /\ j < k
         /\ run.visits[i].kind \in {"no_host", "no_id"}
         /\ run.visits[j].outcome = "failed"
         /\ run.visits[k].g = 2
         /\ run.visits[k].outcome = "completed"

-----------------------------------------------------------------------------
(* Containment of an exception raised while a line is processed *)

\* the lines the loop of the pass ran over: the last pass.nlines of the lines
\* parse_log_content was called with
LoopRange ==
    SubSeq(pass.lines, Len(pass.lines) - pass.nlines + 1, Len(pass.lines))

\* C21: an exception raised while one line is processed in parse_log_content
\* is caught, and every later line of the range is still processed; the
\* events collected from the other lines are returned.  Stated for the logs
\* of registration lines and lines whose respawn time does not convert: when
\* parse_log_content has returned, every line of the range has entered the
\* loop body, and in a hot pass the returned list holds, in order, one
\* Connected event for each registration line of the range
C21_PerLineContainment ==
    (pc = "send" /\ pass.nlines > 0) =>
        LET range == LoopRange
            regs == SelectSeq(range, LAMBDA l : ~l.text.overlong)
        IN  /\ pass.seen = { range[i].n : i \in 1..Len(range) }
            /\ ~pass.cold =>
                  /\ Len(pass.embeds) = Len(regs)
                  /\ \A i \in 1..Len(regs) :
                        /\ pass.embeds[i].src = regs[i].n
                        /\ pass.embeds[i].title = "Player Connected"

\* C21 witness: a hot pass has returned from a range in which a line raised
\* between two registration lines, with the events of both
C21_Witness ==
    /\ pc = "send" /\ ~pass.cold /\ pass.nlines >= 3
    /\ \E i, j, k \in 1..Len(LoopRange) :
          /\ i < j /\ j < k
          /\ ~LoopRange[i].text.overlong
          /\ LoopRange[j].text.overlong
          /\ ~LoopRange[k].text.overlong
          /\ \E a, b \in 1..Len(pass.embeds) :
                /\ a < b
                /\ pass.embeds[a].src = LoopRange[i].n
                /\ pass.embeds[b].src = LoopRange[k].n

-----------------------------------------------------------------------------
(* Delivery of a batch, and the channel an event goes to *)

\* C22: in send_log_embeds a failure to deliver one event (unknown type, no
\* channel configured, channel not found, send raises) does not end the
\* batch: delivery is attempted for every event, in order.  While the loop
\* runs the attempts so far are those for the events before the current one,
\* and when it has returned there is one attempt per event of the batch
C22_DeliveryContainment ==
    /\ router.state = "running" => Len(router.attempts) = router.i - 1
    /\ router.state = "done" => Len(router.attempts) = Len(router.batch)
    /\ \A k \in 1..Len(router.attempts) :
          /\ router.attempts[k].n = k
          /\ router.attempts[k].type = router.batch[k].type

\* C22 witness: a batch has been gone through in which the send of the first
\* event raised, the second had no channel to go to or an unknown type, and
\* the third was sent
C22_Witness ==
    /\ router.state = "done"
    /\ Len(router.attempts) = 3
    /\ router.attempts[1].outcome = "send_failed"
    /\ router.attempts[2].outcome \in {"no_channel", "unknown_type", "not_found"}
    /\ router.attempts[3].outcome = "sent"

-----------------------------------------------------------------------------
(* Session transitions and the events reporting them *)

\* the events of the returned list built from line n for the pattern pat
EventsFrom(n, pat) ==
    { i \in 1..Len(pass.embeds) :
        pass.embeds[i].src = n /\ pass.embeds[i].pat = pat }

\* the last line among R that registers or disconnects p
LastTransition(R, p) ==
    CHOOSE n \in R :
        /\ pass.content[n].reg = <<p>> \/ pass.content[n].disc = <<p>>
        /\ \A m \in R :
              (pass.content[m].reg = <<p>> \/ pass.content[m].disc = <<p>>)
              => m <= n

\* of the lines R of a hot pass, every registration line has set the session
\* online and is reported by exactly one Connected event, and every
\* disconnect line by exactly one Disconnected event
OneEventPerTransition(R) ==
    /\ \A n \in R :
          /\ pass.content[n].reg # <<>> =>
                /\ Cardinality(EventsFrom(n, "player_registered")) = 1
                /\ \A i \in EventsFrom(n, "player_registered") :
                      /\ pass.embeds[i].title = "Player Connected"
                      /\ pass.embeds[i].id = pass.content[n].reg[1]
          /\ pass.content[n].disc # <<>> =>
                /\ Cardinality(EventsFrom(n, "player_disconnect")) = 1
                /\ \A i \in EventsFrom(n, "player_disconnect") :
                      /\ pass.embeds[i].title = "Player Disconnected"
                      /\ pass.embeds[i].id = pass.content[n].disc[1]
    /\ \A q \in Players :
          (\E n \in R : pass.content[n].reg = <<q>> \/ pass.content[n].disc = <<q>>)
          => LET last == pass.content[LastTransition(R, q)]
                 key == <<pass.t[1], q>>
             IN  last.reg = <<q>> =>
                   /\ key \in DOMAIN player_sessions
                   /\ player_sessions[key].status = "online"

-----------------------------------------------------------------------------
(* The name a registration takes from the queue-join before it *)

\* the greatest line number of a non-empty set of them
LastOf(S) == CHOOSE n \in S : \A m \in S : m <= n

\* the name recorded for q when line n of the pass is at its registration
\* match: that of the last queue-join line of q processed in this pass up to
\* line n, else the one recorded before the pass, else 'Unknown Player'
RecordedName(n, q) ==
    LET joins == { m \in pass.seen :
                     /\ m <= n
                     /\ ~LineRaises(pass.content[m])
                     /\ pass.content[m].qj # <<>>
                     /\ pass.content[m].qj[1] = q }
        key == <<pass.t[1], q>>
    IN  IF joins # {} THEN pass.content[LastOf(joins)].qj[2]
        ELSE IF key \in DOMAIN pass.pre.player_lifecycle
        THEN pass.pre.player_lifecycle[key].name
        ELSE "Unknown Player"

\* the registration lines of q processed in this pass up to line n
RegistrationsUpTo(n, q) ==
    { m \in pass.seen :
        m <= n /\ ~LineRaises(pass.content[m]) /\ pass.content[m].reg = <<q>> }

\* C24: a registration line processed for (guild, player) gives the session
\* and the Connected event the name recorded by the most recent processed
\* queue-join line of that player, or 'Unknown Player' when none is
\* recorded; a later Disconnected event carries the name stored in the
\* session.  When parse_log_content has returned: the session of a player
\* registered in the pass, and each Connected event, carry the recorded
\* name; each Disconnected event carries the name of the session as the
\* last registration before it, in this pass or an earlier one, left it
C24_NameBridging ==
    pc = "send" =>
        /\ \A q \in Players :
              RegistrationsUpTo(pass.total, q) # {} =>
                /\ <<pass.t[1], q>> \in DOMAIN player_sessions
                /\ player_sessions[<<pass.t[1], q>>].player_name =
                      RecordedName(LastOf(RegistrationsUpTo(pass.total, q)), q)
        /\ \A i \in 1..Len(pass.embeds) :
              LET e == pass.embeds[i]
                  key == <<pass.t[1], e.id>>
              IN  /\ e.pat = "player_registered" => e.name = RecordedName(e.src, e.id)
                  /\ e.pat = "player_disconnect" =>
                        IF RegistrationsUpTo(e.src, e.id) # {}
                        THEN e.name = RecordedName(
                                 LastOf(RegistrationsUpTo(e.src, e.id)), e.id)
                        ELSE key \in DOMAIN pass.pre.player_sessions =>
                               e.name = pass.pre.player_sessions[key].player_name

\* C24 witness: a hot pass has returned a Connected event under the second
\* of two names the player joined the queue with, and a Disconnected event
\* under the same name
C24_Witness ==
    /\ pc = "send" /\ ~pass.cold
    /\ \E n, m \in 1..pass.total :
          /\ n < m
          /\ pass.content[n].qj = <<"abc", "Test">>
          /\ pass.content[m].qj = <<"abc", "Other">>
          /\ m \in pass.seen \/ <<pass.t[1], "abc">> \in DOMAIN pass.pre.player_lifecycle
    /\ \E i, j \in 1..Len(pass.embeds) :
          /\ i < j
          /\ pass.embeds[i].pat = "player_registered"
          /\ pass.embeds[i].name = "Other"
          /\ pass.embeds[j].pat = "player_disconnect"
          /\ pass.embeds[j].name = "Other"

-----------------------------------------------------------------------------
(* Isolation of the tenants *)

\* the entries of d under the keys K are those of the dictionary e
SameEntries(d, e, K) ==
    \A k \in K : /\ (k \in DOMAIN d) = (k \in DOMAIN e)
                 /\ k \in DOMAIN d => d[k] = e[k]

\* the pass has changed no file_states or last_log_position entry of another
\* tenant and no player_sessions or player_lifecycle entry of another guild
PassFrame ==
    LET others == AllTenants \ {pass.t}
        foreign == { k \in {"g1", "g2"} \X Players : k[1] # pass.t[1] }
    IN  /\ SameEntries(file_states, pass.pre.file_states, others)
        /\ SameEntries(store, pass.pre.store, others)
        /\ SameEntries(last_log_position, pass.pre.last_log_position, others)
        /\ SameEntries(player_sessions, pass.pre.player_sessions, foreign)
        /\ SameEntries(player_lifecycle, pass.pre.player_lifecycle, foreign)

\* the players whose player_sessions or player_lifecycle slot the loop of
\* the pass has read or written: those a processed line matches for
PlayersTouched ==
    { q \in Players : \E n \in pass.seen :
        \/ pass.content[n].reg = <<q>>
        \/ pass.content[n].disc = <<q>>
        \/ (pass.content[n].qj # <<>> /\ pass.content[n].qj[1] = q) }

\* the players whose slot the first pass of tenant u has read or written:
\* that pass ran the loop over the lines 1..hist[u].coldUpTo of u's log
PlayersTouchedBefore(u) ==
    { q \in Players : \E n \in 1..hist[u].coldUpTo :
        \/ log[u][n].reg = <<q>>
        \/ log[u][n].disc = <<q>> }

\* no slot the pass has read or written is one that a pass of another tenant
\* has read or written: file_states and last_log_position are keyed by the
\* tenant, player_sessions and player_lifecycle by guild and player
NoSharedSlot ==
    \A u \in AllTenants \ {pass.t} :
        u[1] = pass.t[1] => PlayersTouched \cap PlayersTouchedBefore(u) = {}

\* C25: a pass for tenant (g, s) changes no file_states or last_log_position
\* entry of another tenant key and no player_sessions or player_lifecycle
\* entry of another guild, and no two distinct tenants ever read or write
\* the same dictionary slot
C25_TenantIsolation ==
    (pass.outcome \in {"running", "completed"} /\ pc # "parse") =>
        PassFrame /\ NoSharedSlot

\* the first half of C25 alone: the frame of a pass
C25_PassFrame ==
    (pass.outcome \in {"running", "completed"} /\ pc # "parse") => PassFrame

\* a pass for one server of a guild has changed a session that a pass for
\* another server of the guild had written
C25_SharedSessionReached ==
    /\ pc = "send"
    /\ \E u \in AllTenants \ {pass.t}, q \in Players :
          /\ u[1] = pass.t[1]
          /\ q \in PlayersTouched \cap PlayersTouchedBefore(u)
          /\ <<u[1], q>> \in DOMAIN pass.pre.player_sessions
          /\ player_sessions[<<u[1], q>>] # pass.pre.player_sessions[<<u[1], q>>]

-----------------------------------------------------------------------------
(* The order of the channel fallback *)

\* the channel the claimed order gives: the server's channel of the type,
\* the default server's, the legacy one, then for a type other than killfeed
\* the same three places for killfeed
ClaimedChannel(config, guild_id, server_id, channel_type) ==
    IF guild_id \notin DOMAIN config THEN NoChannel
    ELSE
    LET guild_doc == config[guild_id]
        server_channels == Get(guild_doc, "server_channels", EmptyDict)
        legacy == Get(guild_doc, "channels", EmptyDict)
        of_server == Get(Get(server_channels, server_id, EmptyDict),
                         channel_type, NoChannel)
        of_default == Get(Get(server_channels, "default", EmptyDict),
                          channel_type, NoChannel)
        server_killfeed == Get(Get(server_channels, server_id, EmptyDict),
                               "killfeed", NoChannel)
        default_killfeed == Get(Get(server_channels, "default", EmptyDict),
                                "killfeed", NoChannel)
        legacy_killfeed == Get(legacy, "killfeed", NoChannel)
        legacy_channel_id == Get(legacy, channel_type, NoChannel)
    IN  IF of_server # NoChannel THEN of_server
        ELSE IF of_default # NoChannel THEN of_default
        ELSE IF legacy_channel_id # NoChannel THEN legacy_channel_id
        ELSE IF channel_type = "killfeed" THEN NoChannel
        ELSE IF server_killfeed # NoChannel THEN server_killfeed
        ELSE IF default_killfeed # NoChannel THEN default_killfeed
        ELSE legacy_killfeed

\* C26: get_server_channel resolves a channel of type t in the order: the
\* server-specific t channel, the tenant-default t channel, the
\* legacy-global t channel, then the same chain for killfeed, then none.
\* Of every event send_log_embeds has looked a channel up for: the channel
\* found is the first configured one in that order
C26_FallbackOrder ==
    \A k \in 1..Len(router.attempts) :
        router.attempts[k].channel_type # NoValue =>
            router.attempts[k].channel_id =
                ClaimedChannel(guild_config, router.guild, router.server,
                               router.attempts[k].channel_type)

\* the guild has the server's killfeed channel and the legacy connections
\* channel configured, and a connection event went to the killfeed channel
C26_KillfeedBeforeLegacy ==
    /\ "g1" \in DOMAIN guild_config
    /\ guild_config["g1"] = GuildDoc({3, 4})
    /\ \E k \in 1..Len(router.attempts) :
          /\ router.attempts[k].channel_type = "connections"
          /\ router.attempts[k].channel_id = 4

\* the guild document with nothing but the legacy 'connections' channel
LegacyOnly ==
    [server_channels |-> EmptyDict, channels |-> [ty \in {"connections"} |-> 3]]

\* C27: for a guild whose only configured channel is the legacy global
\* 'connections' channel, get_server_channel returns that channel for type
\* 'connections' and connection events are sent to it: every connection
\* event of a batch is given that channel, and is sent there unless the
\* channel is not found or the send raises
C27_LegacyFallback ==
    ("g1" \in DOMAIN guild_config /\ guild_config["g1"] = LegacyOnly) =>
        \A k \in 1..Len(router.attempts) :
            router.attempts[k].type = "player_connection" =>
                /\ router.attempts[k].channel_type = "connections"
                /\ router.attempts[k].channel_id = 3
                /\ router.attempts[k].outcome \in {"sent", "not_found", "send_failed"}

\* C27 witness: with only the legacy connections channel configured, a
\* connection event has been sent to it after an event that had no channel
C27_Witness ==
    /\ "g1" \in DOMAIN guild_config /\ guild_config["g1"] = LegacyOnly
    /\ router.state = "done"
    /\ \E k \in 1..Len(router.attempts) :
          /\ router.attempts[k].type = "player_connection"
          /\ router.attempts[k].channel_id = 3
          /\ router.attempts[k].outcome = "sent"
    /\ \E k \in 1..Len(router.attempts) :
          router.attempts[k].outcome = "no_channel"

-----------------------------------------------------------------------------
(* A log that was reset *)

\* the lines parse_log_content was given, as it splits them
GivenLines == JoinSplit(pass.lines)

\* C28: when the content given to parse_log_content has fewer lines than the
\* stored line_count of the tenant (the log file was reset or rotated), all
\* lines of the new content are processed
C28_FileReset ==
    (pc = "send" /\ Len(GivenLines) < PreFileState.line_count) =>
        pass.seen = { GivenLines[i].n : i \in 1..Len(GivenLines) }

\* a pass over a log that was rotated, and is shorter now than the stored
\* line_count, has returned from parse_log_content without a line processed
C28_RotatedLogSkipped ==
    /\ pc = "send"
    /\ pass.total < PreFileState.line_count
    /\ GivenLines = Numbered(pass.content)
    /\ \E i \in 1..Len(GivenLines) : GivenLines[i].text.qj # <<>>
    /\ pass.seen = {}

-----------------------------------------------------------------------------
(* A cold start forced by reset_file_states *)

\* the pass is a cold one over the entire log that hands no event over
ColdOverEntireLog ==
    /\ pass.outcome \in {"running", "completed"}
    /\ pass.cold
    /\ pass.lines = Numbered(pass.content)
    /\ pc \in {"send", "finish", "idle"} =>
          pass.seen = { GivenLines[i].n : i \in 1..Len(GivenLines) }
    /\ pass.handed = <<>>

\* C29: after reset_file_states (called with a server key, with a guild id
\* or with neither) the next pass of every affected tenant runs in
\* cold-start mode over the entire log and emits no events, and the pass
\* after that runs in hot-start mode.  Of a pass that has fetched a log with
\* content
C29_ForcedColdStart ==
    pass.outcome \in {"running", "completed", "no_new_lines"} =>
        /\ pass.reset \in {"pending", "overtaken"} => ColdOverEntireLog
        /\ pass.reset = "cold_done" => ~pass.cold

\* the same of the calls of reset_file_states made while no pass for the
\* tenant is under way
C29_ForcedColdStartBetweenPasses ==
    pass.outcome \in {"running", "completed", "no_new_lines"} =>
        /\ pass.reset = "pending" => ColdOverEntireLog
        /\ pass.reset = "cold_done" => ~pass.cold

\* a cold pass forced by a reset has ended, over a log that earlier passes
\* had read already
C29_ForcedPassReached ==
    /\ PassDone /\ pass.reset = "pending" /\ pass.cold
    /\ PrePosition > 0

\* the pass that followed the forced cold pass has run hot
C29_HotAfterForcedReached ==
    /\ PassDone /\ pass.reset = "cold_done" /\ ~pass.cold

\* a reset made during a pass for the tenant was followed by a hot pass
C29_LostResetReached ==
    /\ pass.reset = "overtaken" /\ ~pass.cold
    /\ pass.outcome \in {"running", "completed", "no_new_lines"}

-----------------------------------------------------------------------------
(* cleanup_guild_state *)

\* the six dictionaries, by name
StateDicts ==
    [file_states |-> file_states, player_sessions |-> player_sessions,
     server_status |-> server_status, player_lifecycle |-> player_lifecycle,
     last_log_position |-> last_log_position, log_file_hashes |-> log_file_hashes]

\* the connections that were opened for the server of the guild
OpenedFor(guild_id) ==
    { k \in 1..Len(conns) : conns[k].key = PoolKey(CleanConfig(guild_id)) }

\* the step has removed every entry of the guild from the six dictionaries
\* and has left the entries of the other guilds as they were
DictsCleaned(guild_id) ==
    \A d \in DOMAIN StateDicts :
        /\ \A k \in DOMAIN StateDicts'[d] : k[1] # guild_id
        /\ \A k \in DOMAIN StateDicts[d] :
              k[1] # guild_id =>
                  k \in DOMAIN StateDicts'[d] /\ StateDicts'[d][k] = StateDicts[d][k]

\* the step has closed every pooled connection of the guild's server, has
\* taken it out of the pool, and has left the others pooled and as they were
ConnectionsCleaned(guild_id) ==
    /\ \A key \in DOMAIN sftp_connections :
          IF sftp_connections[key] \in OpenedFor(guild_id)
          THEN /\ conns'[sftp_connections[key]].state = "closed"
               /\ key \notin DOMAIN sftp_connections'
          ELSE /\ key \in DOMAIN sftp_connections'
               /\ sftp_connections'[key] = sftp_connections[key]
               /\ conns'[sftp_connections[key]] = conns[sftp_connections[key]]

\* C30: cleanup_guild_state(g) removes every entry of guild g from
\* file_states, player_sessions, server_status, player_lifecycle,
\* last_log_position and log_file_hashes, closes and removes every pooled
\* SFTP connection that was opened for guild g's servers, and leaves the
\* entries of every other guild unchanged
C30_GuildCleanup ==
    [][\A guild_id \in {"g1", "g2"} :
          cleanup_guild_state(guild_id) =>
              DictsCleaned(guild_id) /\ ConnectionsCleaned(guild_id)]_vars

\* the same of the six dictionaries alone
C30_DictionariesCleaned ==
    [][\A guild_id \in {"g1", "g2"} :
          cleanup_guild_state(guild_id) => DictsCleaned(guild_id)]_vars

\* guild g1 has been cleaned up after a completed pass (its checkpoint is
\* in the store and in no dictionary) and the connection of its server is
\* pooled and open
C30_ConnectionLeftReached ==
    /\ <<"g1", "s1">> \in DOMAIN store
    /\ \A d \in DOMAIN StateDicts : \A k \in DOMAIN StateDicts[d] : k[1] # "g1"
    /\ pc = "idle"
    /\ \E key \in DOMAIN sftp_connections :
          /\ sftp_connections[key] \in OpenedFor("g1")
          /\ conns[sftp_connections[key]].state = "open"

-----------------------------------------------------------------------------
(* The bot: shutdown and setup *)

\* C31: when the bot shuts down (close or shutdown), every SFTP connection
\* held in the unified log parser's connection pool is closed
C31_ShutdownCleanup ==
    bot.state = "closed" => bot.left_open = {}

\* the bot has shut down with a connection pooled and open
C31_OpenAfterShutdown ==
    /\ bot.state = "closed"
    /\ bot.left_open # {}

\* C32: the setup body of on_ready (cog loading, command sync, database
\* setup, scheduling the unified log parser job) executes at most once per
\* process, also when on_ready fires a second time while the first call is
\* suspended at an await
C32_SetupRunsOnce ==
    /\ bot.cogs <= 1
    /\ bot.syncs <= 1
    /\ bot.databases <= 1
    /\ bot.jobs <= 1

\* the same of the calls of on_ready made after a call has completed the
\* setup
C32_NoSetupAfterCompletion ==
    [][\A r \in 1..MaxReady :
          bot.setup_complete /\ bot.ready[r] = "idle" /\ bot'.ready[r] # "idle"
              => bot'.ready[r] = "skipped" /\ bot'.cogs = bot.cogs]_vars

\* two calls of on_ready have both run the whole setup body
C32_SetupTwiceReached ==
    /\ bot.cogs = 2 /\ bot.syncs = 2 /\ bot.databases = 2 /\ bot.jobs = 2
    /\ \E r \in 1..MaxReady : bot.ready[r] = "done"

-----------------------------------------------------------------------------
(* The number of events a line adds *)

\* processed_events before the k-th line that ran through the loop body
EventsBefore(k) == IF k = 1 THEN 0 ELSE pass.after[k - 1]

\* the patterns whose match the loop body turns into an event
EventPatterns ==
    {"mission_respawn", "mission_state_change", "player_registered",
     "player_disconnect"}

PatternsWithEvents == Cardinality(EventPatterns)

\* C33: in parse_log_content one line adds at most 4 to processed_events
\* (at most one mission_respawn, one mission_state_change, one registration
\* and one disconnect event), so processed_events never exceeds 4 x the
\* number of lines processed and the cold-start limit (more than 5 x lines)
\* is never reached
C33_EventCountBound ==
    /\ \A k \in 1..Len(pass.after) :
          /\ pass.after[k] - EventsBefore(k) \in 0..PatternsWithEvents
          /\ pass.after[k] <= PatternsWithEvents * k
          /\ pass.cold => pass.after[k] <= ColdLimitFactor * pass.nlines
    /\ \A i, j \in 1..Len(pass.embeds) :
          /\ pass.embeds[i].src = pass.embeds[j].src
          /\ pass.embeds[i].pat = pass.embeds[j].pat
          => i = j
    /\ pass.events <= PatternsWithEvents * Cardinality(pass.seen)
    /\ pass.cold => ~pass.stop

\* C33 witness: a cold parse has run a line that added 4 events, and has
\* run every line of its range
C33_Witness ==
    /\ pc = "send"
    /\ pass.cold
    /\ \E k \in 1..Len(pass.after) :
          pass.after[k] - EventsBefore(k) = PatternsWithEvents
    /\ Len(pass.after) = pass.nlines
    /\ pass.nlines > 1

-----------------------------------------------------------------------------
(* The checkpoints a pass writes *)

\* the pass has written the tenant's checkpoint to the store
WrittenThisPass ==
    /\ pass.outcome \in {"running", "completed"}
    /\ pass.t \in DOMAIN store
    /\ store[pass.t].last_updated = "this_pass"

\* C34: every checkpoint that is written to the store for a tenant during a
\* pass has line_count equal to the total number of lines of the log
\* fetched in that pass
C34_PersistedLineCount ==
    WrittenThisPass => store[pass.t].line_count = pass.total

\* the same of the checkpoint the pass ends with
C34_FinalLineCount ==
    WrittenThisPass /\ pass.outcome = "completed"
        => store[pass.t].line_count = pass.total

\* a hot pass has persisted the number of its new lines as the line count
C34_NewLinesPersistedReached ==
    /\ WrittenThisPass
    /\ pc = "send"
    /\ ~pass.cold
    /\ store[pass.t].line_count = Len(pass.lines)
    /\ store[pass.t].line_count < pass.total

\* the step keeps the flag of every checkpoint of the dictionary that has it
\* and is still there
KeepsColdStartComplete(d, e) ==
    \A t \in (DOMAIN d) \cap (DOMAIN e) :
        d[t].cold_start_complete => e[t].cold_start_complete

\* C35: once a tenant's checkpoint has cold_start_complete = true, every
\* later in-memory and persisted checkpoint of that tenant has
\* cold_start_complete = true, until reset_file_states or
\* cleanup_guild_state removes the checkpoint
C35_ColdStartFlagMonotone ==
    [][/\ KeepsColdStartComplete(file_states, file_states')
       /\ KeepsColdStartComplete(store, store')]_vars

\* the same from the end of one pass to the end of the next
C35_FlagKeptOverPass ==
    PassDone /\ PreFileState.cold_start_complete
        => /\ file_states[pass.t].cold_start_complete
           /\ store[pass.t].cold_start_complete

\* a hot pass has replaced a checkpoint that had the flag by one without
\* it, in memory and in the store
C35_FlagDroppedReached ==
    /\ pc = "send"
    /\ PreFileState.cold_start_complete
    /\ pass.t \in DOMAIN file_states /\ pass.t \in DOMAIN store
    /\ ~file_states[pass.t].cold_start_complete
    /\ ~store[pass.t].cold_start_complete

-----------------------------------------------------------------------------
(* The startup load beside a pass *)

\* the startup task and a pass of this process have both finished
LoadAndPassFinished == loader.pc = "finished" /\ loader.starts > 0 /\ PassDone

\* file_states holds the checkpoint the pass wrote
HoldsCheckpointOfPass ==
    /\ pass.t \in DOMAIN file_states
    /\ file_states[pass.t].line_count = pass.total
    /\ file_states[pass.t].cold_start_complete

\* C36: for every interleaving of the startup task _load_persistent_state
\* with a pass of run_log_parser, once both have finished file_states still
\* contains the checkpoint that the pass wrote for each tenant it processed
C36_LoadDoesNotClobber ==
    LoadAndPassFinished => HoldsCheckpointOfPass

\* the same of the persisted checkpoint, which the task only reads
C36_StoreKeepsCheckpoint ==
    LoadAndPassFinished =>
        /\ pass.t \in DOMAIN store
        /\ store[pass.t].line_count = pass.total
        /\ store[pass.t].cold_start_complete

\* the startup task has ended after the pass and has put back the
\* checkpoint of the run before, which is behind the one the pass wrote
C36_ClobberedReached ==
    /\ LoadAndPassFinished
    /\ pass.t \in DOMAIN file_states
    /\ file_states[pass.t].line_count < pass.total
    /\ store[pass.t].line_count = pass.total

-----------------------------------------------------------------------------
(* A disconnect of a player who has no session *)

\* the disconnect lines of q that ran through the loop body while q had no
\* session: none before the pass, no registration of q in the pass before
DisconnectsWithoutSession(q) ==
    { m \in pass.seen :
        /\ pass.content[m].disc = <<q>>
        /\ <<pass.t[1], q>> \notin DOMAIN pass.pre.player_sessions
        /\ RegistrationsUpTo(m, q) = {} }

\* the events the parse returned for the disconnect match of line m
DisconnectEventsOf(m) ==
    { i \in 1..Len(pass.embeds) :
        pass.embeds[i].src = m /\ pass.embeds[i].pat = "player_disconnect" }

\* C37: processing a disconnect line for a (guild, player) that has no
\* player_sessions entry leaves player_sessions unchanged (no offline entry
\* is created), while one Disconnected event is still produced, named from
\* the lifecycle entry or 'Unknown Player'.  When parse_log_content has
\* returned: a player without a session before the pass and without a
\* registration in it has none after it, and in a hot pass each of these
\* disconnect lines has given one event
C37_DisconnectWithoutSession ==
    pc = "send" =>
        \A q \in Players :
            /\ (/\ <<pass.t[1], q>> \notin DOMAIN pass.pre.player_sessions
                /\ RegistrationsUpTo(pass.total, q) = {})
               => <<pass.t[1], q>> \notin DOMAIN player_sessions
            /\ ~pass.cold =>
                  \A m \in DisconnectsWithoutSession(q) :
                      /\ Cardinality(DisconnectEventsOf(m)) = 1
                      /\ \A i \in DisconnectEventsOf(m) :
                            /\ pass.embeds[i].title = "Player Disconnected"
                            /\ pass.embeds[i].id = q
                            /\ pass.embeds[i].name = RecordedName(m, q)

\* C37 witness: a hot parse has returned two Disconnected events for a
\* player without a session, one named 'Unknown Player' and one named from
\* the lifecycle entry, and the player has no session
C37_Witness ==
    /\ pc = "send"
    /\ ~pass.cold
    /\ \E q \in Players :
          /\ <<pass.t[1], q>> \notin DOMAIN player_sessions
          /\ \E m, n \in DisconnectsWithoutSession(q) :
                /\ \E i \in DisconnectEventsOf(m) :
                      pass.embeds[i].name = "Unknown Player"
                /\ \E i \in DisconnectEventsOf(n) :
                      pass.embeds[i].name = "Test"

-----------------------------------------------------------------------------
(* The direction the checkpoint moves in *)

\* no entry that the step keeps has gone down
PositionsKept ==
    /\ \A t \in (DOMAIN last_log_position) \cap (DOMAIN last_log_position') :
          last_log_position'[t] >= last_log_position[t]
    /\ \A t \in (DOMAIN file_states) \cap (DOMAIN file_states') :
          file_states'[t].line_count >= file_states[t].line_count

\* C38: for a tenant whose log is append-only, last_log_position and the
\* line_count of file_states never decrease from one write to the next, also
\* when two passes for the same tenant overlap at their suspension points
\* (one fetches, is suspended, and finishes after a pass that fetched a
\* longer log)
C38_CheckpointNeverBackwards == [][PositionsKept]_vars

\* a pass that fetched a shorter log has ended after one that fetched a
\* longer one, and has left the position behind the other's
C38_MovedBackReached ==
    /\ pc = "idle" /\ pass.outcome = "completed"
    /\ other.pc = "idle" /\ other.pass.outcome = "completed"
    /\ other.pass.t = pass.t
    /\ pass.total < other.pass.total
    /\ last_log_position[pass.t] = pass.total
    /\ file_states[pass.t].line_count = pass.total

-----------------------------------------------------------------------------
(* The sessions after a restart *)

\* the players whose last registration or disconnect among the lines after
\* line n of the content is a registration
RegisteredAfter(content, n) ==
    { p \in Players :
        \E i \in (n + 1)..Len(content) :
            /\ content[i].reg = <<p>>
            /\ \A j \in (i + 1)..Len(content) : content[j].disc # <<p>> }

\* the first pass of a restarted process has ended: the in-memory
\* dictionaries were empty when it began, and the store held a checkpoint of
\* the tenant
PassAfterRestart ==
    /\ PassDone
    /\ DOMAIN pass.pre.last_log_position = {}
    /\ DOMAIN pass.pre.player_sessions = {}
    /\ DOMAIN pass.pre.player_lifecycle = {}
    /\ pass.t \in DOMAIN pass.pre.store

\* the persisted line_count N the pass began with
PersistedLineCount == pass.pre.store[pass.t].line_count

\* C39: player sessions live only in memory, so after a process restart
\* with a persisted checkpoint line_count = N the first pass rebuilds
\* sessions only from lines with index >= N; after that pass the online
\* count of a guild equals the number of players whose registration (not
\* followed by a disconnect) lies in those lines
C39_SessionsAfterRestart ==
    PassAfterRestart =>
        /\ \A n \in pass.seen : n > PersistedLineCount
        /\ \A k \in DOMAIN player_sessions :
              \E n \in pass.seen : pass.content[n].reg = <<k[2]>>
        /\ OnlineCount(player_sessions, pass.t[1]) =
              Cardinality(RegisteredAfter(pass.content, PersistedLineCount))

\* the same of a pass that began after the startup task had put the
\* persisted checkpoint into file_states
C39_SessionsAfterLoadedRestart ==
    ResumedPass =>
        /\ PersistedLineCount = PreFileState.line_count
        /\ \A n \in pass.seen : n > PersistedLineCount
        /\ OnlineCount(player_sessions, pass.t[1]) =
              Cardinality(RegisteredAfter(pass.content, PersistedLineCount))

\* a pass after a loaded restart has ended with one player online from the
\* appended lines, and a player who registered in the lines before them has
\* no session
C39_OnlineFromNewLinesReached ==
    /\ ResumedPass
    /\ OnlineCount(player_sessions, pass.t[1]) = 1
    /\ \E p \in Players :
          /\ \E i \in 1..PersistedLineCount : pass.content[i].reg = <<p>>
          /\ \A i \in 1..PersistedLineCount : pass.content[i].disc # <<p>>
          /\ <<pass.t[1], p>> \notin DOMAIN player_sessions

\* the first pass of a restarted process began before the startup task had
\* loaded the checkpoint, and a player is online from a registration in a
\* line before the persisted line_count, with none after it
C39_RebuiltFromOldLinesReached ==
    /\ PassAfterRestart
    /\ loader.starts > 0
    /\ \E p \in Players :
          /\ <<pass.t[1], p>> \in DOMAIN player_sessions
          /\ player_sessions[<<pass.t[1], p>>].status = "online"
          /\ \E n \in pass.seen :
                n <= PersistedLineCount /\ pass.content[n].reg = <<p>>
          /\ p \notin RegisteredAfter(pass.content, PersistedLineCount)

====
